---- MODULE Spec2Model ----
(***************************************************************************)
(* Push-notification demo: the /api/notify route handler                   *)
(* (src/app/api/notify/route.ts).  The module-level array                  *)
(* pushSubscriptions is the subscription store; POST registers a           *)
(* subscription or fans a notification out to every stored subscription    *)
(* and prunes the ones whose delivery failed permanently.                  *)
(*                                                                         *)
(* A POST handler is an async function: it runs atomically between its     *)
(* awaits.  The dispatch branch has one await after the fan-out            *)
(* (await Promise.all(sendPromises)), so a dispatch is two steps of the    *)
(* handler (DispatchStart, DispatchFinish) with the transport's answers    *)
(* (Settle) and any other request in between.                              *)
(*                                                                         *)
(* The service worker (src/service-worker.js) is a second execution        *)
(* context: it shares no memory with the route handler, so its variables   *)
(* are left alone by every step of the server and the server's by every    *)
(* step of the worker.                                                     *)
(***************************************************************************)
EXTENDS Integers, Sequences, FiniteSets, TLC

\* ---------------------------------------------------------------- bounds
\* requests handled in one behaviour
MaxRequests == 4
\* dispatch handlers suspended at their await at the same time
MaxInFlight == 2

\* ---------------------------------------------------------------- values
\* JavaScript's undefined, for a field a JSON body does not carry
Undefined == "undefined"

\* body.subscription when the body carries none
NoSub == [endpoint |-> Undefined, keys |-> Undefined]

\* the subscriptions a client may send: endpoint E1 with two keying
\* materials, endpoint E2, and a subscription object without an endpoint
SubInputs == {[endpoint |-> "E1", keys |-> "k1"], [endpoint |-> "E1", keys |-> "k2"],
              [endpoint |-> "E2", keys |-> "k1"],
              [endpoint |-> Undefined, keys |-> "k1"]}

\* the keys of notificationPayloads
CatalogTypes == {"new_match", "new_message", "chat_expiry"}

\* body.type as a client may send it: a catalog key or a string that is
\* none (Undefined: no type field)
TypeInputs == CatalogTypes \cup {"unknown_type"}

\* the webpush.sendNotification outcomes the handler tells apart: resolved,
\* or rejected with an Error whose message holds '410', holds 'expired', or
\* holds neither
Outcomes == {"ok", "err_410", "err_expired", "err_other"}

\* an element of results: the record a send callback returns, and the
\* promise of one that has not returned yet
Pending == [settled |-> FALSE, success |-> FALSE, shouldRemove |-> FALSE]

\* an absent numeric field of a response
Absent == -1

VARIABLES
    pushSubscriptions, \* the store: a sequence of subscription records
    inflight,          \* per slot: a dispatch handler awaiting Promise.all
    last,              \* the response sent last, with the handler's locals behind it
    nreq,              \* number of POST requests received so far
    nresp,             \* number of responses sent to POST requests so far
    vapidKeys,         \* the module's VAPID configuration, fixed at load
    loaded,            \* whether the module's top-level code ran to its end
    notification,      \* worker: the notification shown last
    click,             \* worker: the click handler of the last event, if it was a click
    calls,             \* worker: the calls the handler of the last event made
    nevt,              \* worker: number of events delivered so far
    caches,            \* the origin's cache storage: the entries of each cache by name
    lifecycle,         \* worker: how far its installation and activation have come
    activation,        \* worker: the activate handler's view of the cache names
    fetched,           \* worker: the answer of the fetch listener to the last request
    userAgent,         \* page: the browser's navigator.userAgent
    props,             \* install button: the props it was given
    mount,             \* install button: rendered once, effect run, or unmounted
    deferredPrompt,    \* install button: the captured beforeinstallprompt event
    isIOS,             \* install button: the state set from detectIOS()
    isInstallPromptUsed, \* install button: the state that hides it for good
    listeners,         \* page: the window's event types the component listens to
    prompts,           \* page: the beforeinstallprompt events fired so far
    handlers,          \* install button: the calls of handleInstallClick so far
    handled,           \* install button: the calls of onInstallPromptHandled so far
    permission,        \* page: the permission state
    isSubscribed,      \* page: the subscribed flag
    isLoading,         \* page: the loading flag
    subscriptionObj,   \* page: the held subscription, NoSub for null
    browser,           \* page: what the browser supports, grants and is subscribed to
    setup,             \* page: the run of enableNotifications, where it is suspended
    check,             \* page: the run of checkSubscription started on mount
    restarts           \* number of restarts of the server so far

\* the variables of the service worker's push and click listeners
workerVars == <<notification, click, calls, nevt>>

\* the variables of the service worker's install, activate and fetch
\* listeners
cacheVars == <<caches, lifecycle, activation, fetched>>

\* the module's configuration
configVars == <<vapidKeys, loaded>>

\* the variables of the route handler and its module
serverVars == <<pushSubscriptions, inflight, last, nreq, nresp, configVars>>

\* the variables of the install button and of the page around it
installVars == <<userAgent, props, mount, deferredPrompt, isIOS, isInstallPromptUsed,
                 listeners, prompts, handlers, handled>>

\* what a step of the server, of the push and click listeners, of the
\* cache listeners and of the install button leaves alone
\* the variables of the client page, the browser under it and the
\* server's restarts
pageVars == <<permission, isSubscribed, isLoading, subscriptionObj, browser, setup,
              check, restarts>>

besidesServer == <<workerVars, cacheVars, installVars, pageVars>>
besidesWorker == <<serverVars, cacheVars, installVars, pageVars>>
besidesCaches == <<serverVars, workerVars, installVars, pageVars>>
besidesInstall == <<serverVars, workerVars, cacheVars, pageVars>>
besidesPage == <<workerVars, cacheVars, installVars>>

vars == <<serverVars, workerVars, cacheVars, installVars, pageVars>>

Slots == 1..MaxInFlight

\* JSON.stringify(undefined): a push sent without a payload
NoPayload == [title |-> Undefined, body |-> Undefined, tag |-> Undefined,
              url |-> Undefined, type |-> Undefined, actions |-> <<>>,
              icon |-> Undefined, badge |-> Undefined, vibrate |-> Undefined,
              requireInteraction |-> Undefined, renotify |-> Undefined,
              image |-> Undefined]

\* a slot holding no handler
Idle == [phase |-> "idle", type |-> Undefined, payload |-> NoPayload,
         snapshot |-> <<>>, results |-> <<>>, sends |-> <<>>, transmitted |-> <<>>]

NoResponse == [status |-> 0, message |-> Undefined, error |-> Undefined,
               details |-> Undefined,
               type |-> Undefined, sent |-> Absent, failed |-> Absent,
               totalSubscriptions |-> Absent, subscriptionsCount |-> Absent,
               vapidConfigured |-> Undefined]

\* last, before any response and after a response of each kind:
\* existingIndex is the registration branch's local (0 for findIndex's -1),
\* dispatch the finished dispatch handler's locals
Answered(response, existingIndex, dispatch) ==
    [response |-> response, existingIndex |-> existingIndex, dispatch |-> dispatch]

\* ------------------------------------------------------ the configuration
\* the fallback of vapidKeys.publicKey, line 18
DefaultPublicKey ==
    "BJCYodv-yqhixo9_SoE68bwivX2NJzb14b5tCJXi5c_m0VswyAwcsn0eqbw8_BChGzhZahWbDx8na3WfKFfXlQk"

\* a key as npx web-push generate-vapid-keys prints one
GeneratedPublicKey ==
    "BEl62iUYgUivxIkv69yViEuiBIa-Ib9-SkvMeAtA3LFgDzkrxZJjSgSnfckjBJuBkr3qBUYIHBQFLXYp5Nksh8U"

\* the value the environment template ships for
\* NEXT_PUBLIC_VAPID_PUBLIC_KEY
TemplatePlaceholder == "YOUR_VAPID_PUBLIC_KEY_HERE"

\* the value GET compares the public key with, line 236
ComparedPlaceholder == "YOUR_VAPID_PUBLIC_KEY"

\* process.env.NEXT_PUBLIC_VAPID_PUBLIC_KEY as a deployment may set it:
\* not at all, empty, a placeholder, or a generated key
EnvInputs == {Undefined, "", ComparedPlaceholder, TemplatePlaceholder, GeneratedPublicKey}

\* process.env.NEXT_PUBLIC_VAPID_PUBLIC_KEY || '<default>', line 18
publicKey(env) == IF env \in {Undefined, ""} THEN DefaultPublicKey ELSE env

\* webpush.setVapidDetails(subject, publicKey, privateKey), lines 23-27,
\* runs while the module loads.  The library is not part of the source:
\* given a string that is no P-256 public key it either keeps it or
\* throws, and a throw leaves the module without handlers.  The set of
\* the values loaded may have afterwards.
setVapidDetails(key) ==
    IF key \in {DefaultPublicKey, GeneratedPublicKey} THEN {TRUE} ELSE {TRUE, FALSE}

\* ------------------------------------------------------------ the catalog
\* a catalog whose entries share one tag
notificationPayloadsOneTag(type) ==
    IF type \in CatalogTypes
    THEN [NoPayload EXCEPT !.title = "Notification", !.body = "You have a notification",
                           !.tag = "notification", !.url = "/chats", !.type = type,
                           !.actions = <<"view", "dismiss">>]
    ELSE NoPayload

\* notificationPayloads[type]: the payload of a catalog key, undefined for
\* any other string
notificationPayloads(type) ==
    CASE type = "new_match" ->
           [title |-> "A New Spark!", body |-> "You've matched with someone special!",
            tag |-> "new_match", url |-> "/chats?new_match=true", type |-> "new_match",
            actions |-> <<"view", "dismiss">>,
            icon |-> "/icon-192x192.svg", badge |-> "/icon-192x192.svg",
            vibrate |-> Undefined, requireInteraction |-> Undefined,
            renotify |-> Undefined, image |-> Undefined]
      [] type = "new_message" ->
           [title |-> "New Message", body |-> "Someone sent you a message.",
            tag |-> "new_message", url |-> "/chats/123", type |-> "new_message",
            actions |-> <<"view", "dismiss">>,
            icon |-> "/icon-192x192.svg", badge |-> "/icon-192x192.svg",
            vibrate |-> Undefined, requireInteraction |-> Undefined,
            renotify |-> Undefined, image |-> Undefined]
      [] type = "chat_expiry" ->
           [title |-> "Time's Ticking!", body |-> "A chat is about to expire. Don't miss out!",
            tag |-> "chat_expiry", url |-> "/chats/456", type |-> "chat_expiry",
            actions |-> <<"view", "dismiss">>,
            icon |-> "/icon-192x192.svg", badge |-> "/icon-192x192.svg",
            vibrate |-> Undefined, requireInteraction |-> Undefined,
            renotify |-> Undefined, image |-> Undefined]
      [] OTHER -> NoPayload

\* -------------------------------------------------------------- the store
\* pushSubscriptions.findIndex(sub => sub.endpoint === endpoint), 1-based;
\* 0 stands for findIndex's -1
RECURSIVE findIndexFrom(_, _, _)
findIndexFrom(store, endpoint, i) ==
    IF i > Len(store) THEN 0
    ELSE IF store[i].endpoint = endpoint THEN i
    ELSE findIndexFrom(store, endpoint, i + 1)

findIndex(store, endpoint) == findIndexFrom(store, endpoint, 1)

\* StoreSubscription without the duplicate check: always push
StoreSubscriptionAlwaysPush(store, subscription) == Append(store, subscription)

\* StoreSubscription that leaves an existing record as it is
StoreSubscriptionKeepOld(store, subscription) ==
    IF findIndex(store, subscription.endpoint) >= 1
    THEN store
    ELSE Append(store, subscription)

\* StoreSubscription that drops the existing record and pushes the new one
StoreSubscriptionMoveToEnd(store, subscription) ==
    Append(SelectSeq(store, LAMBDA sub : sub.endpoint # subscription.endpoint),
           subscription)

\* the registration branch's update: replace at existingIndex, else push
StoreSubscription(store, subscription) ==
    LET existingIndex == findIndex(store, subscription.endpoint)
    IN  IF existingIndex >= 1
        THEN [store EXCEPT ![existingIndex] = subscription]
        ELSE Append(store, subscription)

\* StoreIfEmpty without the test of the store's length
StoreIfEmptyAlways(store, body) ==
    IF body.subscription # NoSub THEN Append(store, body.subscription) ELSE store

\* StoreIfEmpty without the test of body.subscription
StoreIfEmptyUnchecked(store, body) ==
    IF Len(store) = 0 THEN Append(store, body.subscription) ELSE store

\* the dispatch branch's opportunistic push, lines 68-71
StoreIfEmpty(store, body) ==
    IF Len(store) = 0 /\ body.subscription # NoSub
    THEN Append(store, body.subscription)
    ELSE store

\* the catch block's test, lines 168-169: error.message.includes('410') ||
\* error.message.includes('expired')
isGone(outcome) == outcome \in {"err_410", "err_expired"}

\* what the send callback returns, lines 157-175: { success: true },
\* { success: false, shouldRemove: true } or { success: false }
sendResult(outcome) ==
    IF outcome = "ok"
    THEN [settled |-> TRUE, success |-> TRUE, shouldRemove |-> FALSE]
    ELSE [settled |-> TRUE, success |-> FALSE, shouldRemove |-> isGone(outcome)]

\* results.filter(r => r.shouldRemove).map(r => r.index).sort((a,b) => b-a):
\* the indices to remove, largest first
RECURSIVE invalidIndicesFrom(_, _)
invalidIndicesFrom(results, i) ==
    IF i = 0 THEN <<>>
    ELSE IF results[i].shouldRemove
         THEN <<i>> \o invalidIndicesFrom(results, i - 1)
         ELSE invalidIndicesFrom(results, i - 1)

\* invalidIndices without the descending sort: smallest index first
RECURSIVE invalidIndicesAscendingFrom(_, _)
invalidIndicesAscendingFrom(results, i) ==
    IF i > Len(results) THEN <<>>
    ELSE IF results[i].shouldRemove
         THEN <<i>> \o invalidIndicesAscendingFrom(results, i + 1)
         ELSE invalidIndicesAscendingFrom(results, i + 1)

invalidIndicesAscending(results) == invalidIndicesAscendingFrom(results, 1)

invalidIndices(results) == invalidIndicesFrom(results, Len(results))

\* store.splice(index, 1): removes the element at index when there is one
splice(store, index) ==
    IF index > Len(store) THEN store
    ELSE [j \in 1..(Len(store) - 1) |-> IF j < index THEN store[j] ELSE store[j + 1]]

\* invalidIndices.forEach(index => pushSubscriptions.splice(index, 1))
RECURSIVE spliceEach(_, _)
spliceEach(store, indices) ==
    IF indices = <<>> THEN store
    ELSE spliceEach(splice(store, Head(indices)), Tail(indices))

\* results.filter(result => result.success).length
successCount(results) == Cardinality({i \in 1..Len(results) : results[i].success})

\* ---------------------------------------------------------- the fan-out
\* a fan-out that sends to the first subscription only
sendPromisesFirstOnly(type, store) ==
    [phase |-> "sending", type |-> type,
     payload |-> notificationPayloads(type), snapshot |-> store,
     results |-> [i \in 1..Len(store) |-> Pending],
     sends |-> [i \in 1..Len(store) |-> IF i = 1 THEN 1 ELSE 0],
     transmitted |-> [i \in 1..Len(store) |-> notificationPayloads(type)]]

\* a fan-out that tags each push with its subscriber's endpoint
sendPromisesTagged(type, store) ==
    [phase |-> "sending", type |-> type,
     payload |-> notificationPayloads(type), snapshot |-> store,
     results |-> [i \in 1..Len(store) |-> Pending],
     sends |-> [i \in 1..Len(store) |-> 1],
     transmitted |-> [i \in 1..Len(store) |->
                        [notificationPayloads(type) EXCEPT !.tag = store[i].endpoint]]]

\* JSON.stringify(payload), lines 158-161: the text is written as the
\* value it encodes, one text per value; undefined gives no text
stringify(payload) == payload

\* pushSubscriptions.map(async (subscription, index) => ...): one call of
\* webpush.sendNotification per element, all made before the handler
\* awaits, each with JSON.stringify(payload); the handler's locals while it
\* is suspended
sendPromises(type, store) ==
    LET payload == notificationPayloads(type)
    IN  [phase |-> "sending", type |-> type,
         payload |-> payload, snapshot |-> store,
         results |-> [i \in 1..Len(store) |-> Pending],
         sends |-> [i \in 1..Len(store) |-> 1],
         transmitted |-> [i \in 1..Len(store) |-> stringify(payload)]]

\* ------------------------------------------------------------ responses
\* a registration response that counts the store without the new record
storedResponseBeforePush(store) ==
    [NoResponse EXCEPT !.status = 200,
                       !.message = "Subscription stored successfully",
                       !.subscriptionsCount = Len(store) - 1]

\* lines 57-60
storedResponse(store) ==
    [NoResponse EXCEPT !.status = 200,
                       !.message = "Subscription stored successfully",
                       !.subscriptionsCount = Len(store)]

\* lines 77-80
noSubscriptionsResponse ==
    [NoResponse EXCEPT !.status = 400, !.error = "No subscriptions found"]

\* a report whose failed count leaves the pruned subscriptions out
dispatchReportFailedUnpruned(type, results, store) ==
    [NoResponse EXCEPT !.status = 200,
                       !.message = "Notification sent successfully",
                       !.type = type,
                       !.sent = successCount(results),
                       !.failed = Cardinality({i \in 1..Len(results) :
                                      ~results[i].success /\ ~results[i].shouldRemove}),
                       !.totalSubscriptions = Len(store)]

\* a report that turns into a fault when nothing was sent
dispatchReportFaultWhenNoneSent(type, results, store) ==
    IF successCount(results) = 0
    THEN [NoResponse EXCEPT !.status = 500, !.error = "Internal server error"]
    ELSE [NoResponse EXCEPT !.status = 200,
                            !.message = "Notification sent successfully",
                            !.type = type,
                            !.sent = successCount(results),
                            !.failed = Len(results) - successCount(results),
                            !.totalSubscriptions = Len(store)]

\* lines 190-201
dispatchReport(type, results, store) ==
    [NoResponse EXCEPT !.status = 200,
                       !.message = "Notification sent successfully",
                       !.type = type,
                       !.sent = successCount(results),
                       !.failed = Len(results) - successCount(results),
                       !.totalSubscriptions = Len(store)]

\* an answer to a body without subscription and type that reports success
invalidResponseAccepted ==
    [NoResponse EXCEPT !.status = 200,
                       !.error = "Invalid request body - neither subscription nor type found"]

\* lines 205-208
invalidResponse ==
    [NoResponse EXCEPT !.status = 400,
                       !.error = "Invalid request body - neither subscription nor type found"]

\* what the handler can throw outside the send callbacks: request.json()
\* rejects with a SyntaxError on a body that is no JSON, and body.subscription
\* throws a TypeError on the JSON body null
Faults == {"SyntaxError", "TypeError"}

\* error.message of a fault
message(error) ==
    IF error = "SyntaxError" THEN "Unexpected token in JSON"
    ELSE "Cannot read properties of null"

\* a fault response that leaves details out
faultResponseNoDetails(error) ==
    [NoResponse EXCEPT !.status = 500, !.error = "Internal server error"]

\* lines 224-227: every fault of Faults is an Error, so details is its
\* message
faultResponse(error) ==
    [NoResponse EXCEPT !.status = 500, !.error = "Internal server error",
                       !.details = message(error)]

\* lines 233-236
statusResponse(store, keys) ==
    [NoResponse EXCEPT !.status = 200,
                       !.message = "Notification API is running",
                       !.subscriptionsCount = Len(store),
                       !.vapidConfigured = keys.publicKey # ComparedPlaceholder]

\* the framework's answer to a request for a route whose module threw
\* while loading
unavailableResponse == [NoResponse EXCEPT !.status = 500]

\* ------------------------------------------------------ the service worker
\* JSON's null
Null == "null"

\* the values JavaScript's || passes over among those a payload field holds
falsy(value) == value \in {Undefined, Null, ""}

\* value || fallback
orElse(value, fallback) == IF falsy(value) THEN fallback ELSE value

\* the payloads a push message may carry as JSON: title and the data
\* object's url and type absent, empty, null or set (url and type are
\* data.url and data.type, as in notificationPayloads above)
PayloadInputs ==
    [title : {Undefined, "", "A New Spark!"},
     body : {"You've matched with someone special!"},
     tag : {"new_match"},
     url : {Undefined, Null, "", "/chats/123", "https://app.example/chats/123"},
     type : {Undefined, "", "new_match"},
     actions : {<<"view", "dismiss">>},
     icon : {"/icon-192x192.svg"}, badge : {"/icon-192x192.svg"},
     vibrate : {Undefined}, requireInteraction : {Undefined},
     renotify : {Undefined}, image : {Undefined}]

\* a payload with every field set: a JSON value is written as its text;
\* image stands for the fields the worker has no default for
FullPayload ==
    [title |-> "A New Spark!", body |-> "You've matched with someone special!",
     tag |-> "new_match", url |-> "/chats/123", type |-> "new_match",
     actions |-> <<"view", "dismiss">>,
     icon |-> "/custom.svg", badge |-> "/custom.svg", vibrate |-> "[100]",
     requireInteraction |-> "false", renotify |-> "false", image |-> "/photo.png"]

\* the payload that carries the given ones of the top-level options and
\* lacks the others; it carries image with icon and data.type with badge
carrying(keys) ==
    [field \in DOMAIN FullPayload |->
        IF \/ field \in {"icon", "badge", "vibrate", "requireInteraction", "renotify"} \ keys
           \/ field = "image" /\ "icon" \notin keys
           \/ field = "type" /\ "badge" \notin keys
        THEN Undefined
        ELSE FullPayload[field]]

\* the payloads that set or leave out the top-level options, and one
\* whose icon is null
OptionPayloads ==
    {carrying(keys) :
         keys \in SUBSET {"icon", "badge", "vibrate", "requireInteraction", "renotify"}}
        \cup {[carrying({"icon", "vibrate", "requireInteraction"}) EXCEPT !.icon = Null]}

\* the push events: kind none carries no body (event.data is null), kind
\* text a body that is no JSON, kind null the JSON body null, kind json a
\* JSON object
PushEvents ==
    {[kind |-> k, data |-> NoPayload] : k \in {"none", "text", "null"}}
        \cup {[kind |-> "json", data |-> payload] : payload \in PayloadInputs}

\* event.action of a click: the default click, the two catalog actions and
\* an action of some other id
ActionInputs == {"", "view", "dismiss", "later"}

\* window clients in one answer of clients.matchAll
MaxClients == 2

\* events delivered to the worker in one behaviour
MaxEvents == 3

\* the answers of clients.matchAll: up to MaxClients clients, each with or
\* without a focus method and showing some location
ClientLists ==
    UNION {[1..n -> [focusable : BOOLEAN,
                     url : {"https://app.example/", "https://app.example/chats/123"}]] :
               n \in 0..MaxClients}

\* an entry of calls
Call(op, client, url) == [op |-> op, client |-> client, url |-> url]

\* the top-level options the worker has defaults for
OptionKeys == {"icon", "badge", "vibrate", "requireInteraction", "renotify"}

\* the other top-level fields of a payload
OtherKeys == {"body", "tag", "actions", "image"}

\* lines 73-79
defaultOptions ==
    [icon |-> "/icon-192x192.svg", badge |-> "/icon-192x192.svg",
     vibrate |-> "[200,100,200]", requireInteraction |-> "true",
     renotify |-> "true"]

\* the notification variable while nothing is shown
NoNotification ==
    [shown |-> FALSE, title |-> Undefined, body |-> Undefined,
     data |-> [url |-> Undefined, type |-> Undefined],
     tag |-> Undefined, actions |-> <<>>, image |-> Undefined,
     icon |-> Undefined, badge |-> Undefined, vibrate |-> Undefined,
     requireInteraction |-> Undefined, renotify |-> Undefined]

\* a merge in which the defaults win over the payload
optionsDefaultsLast(payload) ==
    [key \in OptionKeys \cup OtherKeys |->
        IF key \in OptionKeys THEN defaultOptions[key] ELSE payload[key]]

\* lines 82-84: { ...defaultOptions, ...data }: a key the payload carries
\* keeps the payload's value
options(payload) ==
    [key \in OptionKeys \cup OtherKeys |->
        IF key \in OptionKeys /\ payload[key] = Undefined
        THEN defaultOptions[key]
        ELSE payload[key]]

\* registration.showNotification(title, options), with options.data
Notification(title, opts, data) ==
    [shown |-> TRUE, title |-> title, body |-> opts.body, data |-> data,
     tag |-> opts.tag, actions |-> opts.actions, image |-> opts.image,
     icon |-> opts.icon, badge |-> opts.badge, vibrate |-> opts.vibrate,
     requireInteraction |-> opts.requireInteraction, renotify |-> opts.renotify]

\* options.data without the payload's data: the two defaults alone
optionsDataDefaultsOnly(payload) == [url |-> "/", type |-> "unknown"]

\* lines 86-90: { url: data.data?.url || '/', type: data.data?.type ||
\* 'unknown', ...data.data }: the spread comes last, so a key the payload's
\* data carries keeps the payload's value
optionsData(payload) ==
    LET defaults == [url |-> orElse(payload.url, "/"),
                     type |-> orElse(payload.type, "unknown")]
    IN  [key \in {"url", "type"} |->
            IF payload[key] # Undefined THEN payload[key] ELSE defaults[key]]

\* lines 105-110
fallbackNotification ==
    Notification("New Notification",
                 [NoPayload EXCEPT !.body = "You have a new notification",
                                   !.icon = "/icon-192x192.svg",
                                   !.badge = "/icon-192x192.svg"],
                 [url |-> "/", type |-> Undefined])

\* the push listener, lines 57-113: the notifications it shows, in order
onPush(event) ==
    IF event.kind = "none" THEN <<>>
    ELSE IF event.kind \in {"text", "null"} THEN <<fallbackNotification>>
    ELSE <<Notification(orElse(event.data.title, "New Notification"),
                        options(event.data), optionsData(event.data))>>

\* a test of the action id that lets every click through
dismissedNever(action) == FALSE

\* line 127: action === 'dismiss'
dismissed(action) == action = "dismiss"

\* a listener that closes the notification after it looked for windows,
\* and not at all on a dismiss
onClickCloseLast(action) ==
    IF dismissed(action) THEN <<>>
    ELSE <<Call("matchAll", 0, Undefined), Call("close", 0, Undefined)>>

\* lines 119-141: the calls the click listener makes itself, in order
onClick(action) ==
    <<Call("close", 0, Undefined)>>
        \o (IF dismissed(action) THEN <<>> ELSE <<Call("matchAll", 0, Undefined)>>)

\* the click variable while no click handler has run
NoClick == [phase |-> "idle", action |-> Undefined, urlToOpen |-> Undefined,
            clientList |-> <<>>, openWindow |-> FALSE,
            rejected |-> {}, unhandled |-> {}]

\* lines 146-160: the index of the first client with a focus method, 0
\* when the loop ends without one
RECURSIVE firstFocusableFrom(_, _)
firstFocusableFrom(clientList, i) ==
    IF i > Len(clientList) THEN 0
    ELSE IF clientList[i].focusable THEN i
    ELSE firstFocusableFrom(clientList, i + 1)

firstFocusable(clientList) == firstFocusableFrom(clientList, 1)

\* a then callback that opens a window whether or not it focused a client
onClientsFocusAndOpen(clientList, urlToOpen, openWindow) ==
    LET i == firstFocusable(clientList)
    IN  (IF i >= 1 THEN <<Call("focus", i, Undefined)>> ELSE <<>>)
            \o (IF openWindow THEN <<Call("openWindow", 0, urlToOpen)>> ELSE <<>>)

\* the then callback of lines 142-167: the calls it makes, in order
onClients(clientList, urlToOpen, openWindow) ==
    LET i == firstFocusable(clientList)
    IN  IF i >= 1
        THEN <<Call("focus", i, Undefined)>>
                 \o (IF clientList[i].url # urlToOpen
                     THEN <<Call("navigate", i, urlToOpen)>>
                     ELSE <<>>)
        ELSE IF openWindow
             THEN <<Call("openWindow", 0, urlToOpen)>>
             ELSE <<>>

\* the calls whose promise may reject
WindowOps == {"focus", "navigate", "openWindow"}

\* the ops among the calls made whose promise rejects, given the ops the
\* platform fails
rejections(made, failing) == {made[k].op : k \in 1..Len(made)} \cap failing

\* the then callback returns the promise of client.navigate (line 156)
\* or of clients.openWindow (line 165), so its rejection reaches the catch
\* of lines 168-170; the promise of client.focus() (line 152) is dropped
chained(rejected) == rejected \cap {"navigate", "openWindow"}

\* the calls of the catch callback, lines 168-170
onRejected(rejected) ==
    IF chained(rejected) # {}
    THEN <<Call("console.error", 0, Undefined)>>
    ELSE <<>>

\* ------------------------------------------------------------ the caches
\* line 8
CACHE_NAME == "pwa-notification-demo-v1"

\* lines 9-14
urlsToCache == {"/", "/manifest.json", "/icon-192x192.svg", "/icon-512x512.svg"}

\* caches the origin may hold when this worker arrives: the cache of an
\* earlier generation and the one workbox's precaching fills (lines 5-6)
OtherCacheNames == {"pwa-notification-demo-v0", "workbox-precache-v2"}

\* every cache name of the origin
CacheNames == OtherCacheNames \cup {CACHE_NAME}

\* what such a cache may hold
OtherEntries == {{"/"}, {"/", "/old.js"}}

\* the requests the pages of the application make
RequestInputs == {"/", "/manifest.json", "/old.js", "/api/notify"}

\* a cache storage without caches
NoCaches == [name \in {} |-> {}]

\* caches.open(name): creates the cache when there is none of that name
cachesOpen(storage, name) ==
    IF name \in DOMAIN storage THEN storage ELSE (name :> {}) @@ storage

\* cache.addAll(urls) on the cache of this name
addAll(storage, name, urls) == [storage EXCEPT ![name] = @ \cup urls]

\* caches.delete(name)
cachesDelete(storage, name) == [other \in DOMAIN storage \ {name} |-> storage[other]]

\* an activate callback that deletes every cache it is given
staleNamesAll(cacheNames) == cacheNames

\* lines 35-39: the names the activate callback deletes
staleNames(cacheNames) == {cacheName \in cacheNames : cacheName # CACHE_NAME}

\* caches.match(request): some cache holds a response for the request
cachesMatch(storage, request) == \E name \in DOMAIN storage : request \in storage[name]

\* a fetch listener that always goes to the network
respondWithNetwork(storage, request) == "network"

\* lines 48-53: response || fetch(event.request)
respondWith(storage, request) ==
    IF cachesMatch(storage, request) THEN "cache" ELSE "network"

\* the activation variable while no activate handler has run
NoActivation == [cacheNames |-> {}, deleting |-> {}]

\* the fetched variable while no request has been answered
NoFetch == [request |-> Undefined, from |-> Undefined]

\* the push and click listeners before any event: nothing shown, no click
\* being handled
InitListeners ==
    /\ notification = NoNotification
    /\ click = NoClick
    /\ calls = <<>>
    /\ nevt = 0

\* the worker installed and activated, on its own cache alone
InitWorker ==
    /\ InitListeners
    /\ caches = addAll(cachesOpen(NoCaches, CACHE_NAME), CACHE_NAME, urlsToCache)
    /\ lifecycle = "activated"
    /\ activation = NoActivation
    /\ fetched = NoFetch

\* ----------------------------------------------------------- the handler
\* the module loaded under one of the given environments (lines 10-27)
InitServer(envs) ==
    /\ pushSubscriptions = <<>>
    /\ inflight = [s \in Slots |-> Idle]
    /\ last = Answered(NoResponse, Absent, Idle)
    /\ nreq = 0
    /\ nresp = 0
    /\ \E env \in envs :
           /\ vapidKeys = [publicKey |-> publicKey(env)]
           /\ loaded \in setVapidDetails(publicKey(env))

\* ------------------------------------------------------ the install button
MaxPrompts == 2
MaxClicks == 2

\* user agents by the words the tests of lines 60-62 look for, each with
\* the system and browser it belongs to
UserAgents ==
    { [os |-> "ios", browser |-> "safari", words |-> {"iphone", "safari"}],
      [os |-> "ios", browser |-> "safari", words |-> {"ipad", "safari"}],
      [os |-> "ios", browser |-> "chrome", words |-> {"iphone", "crios", "safari"}],
      [os |-> "android", browser |-> "chrome", words |-> {"android", "chrome", "safari"}],
      [os |-> "macos", browser |-> "safari", words |-> {"macintosh", "safari"}],
      [os |-> "windows", browser |-> "firefox", words |-> {"windows", "firefox"}] }

\* a detection that finds no iOS Safari
detectIOSNever(agent) == FALSE

\* lines 57-65
detectIOS(agent) ==
    LET isIOSDevice == agent.words \cap {"ipad", "iphone", "ipod"} # {}
        isSafari == "safari" \in agent.words
                        /\ agent.words \cap {"chrome", "crios", "fxios"} = {}
    IN  isIOSDevice /\ isSafari

\* deferredPrompt while no event is held
NoPrompt == 0

\* the event types the effect listens to, lines 98-99
InstallEvents == {"beforeinstallprompt", "appinstalled"}

\* a component that renders the button whenever it holds an event
renderWhileHeld(ios, prompt, used) ==
    IF ios \/ prompt = NoPrompt THEN "null" ELSE "button"

\* lines 154-215: what the component returns
render(ios, prompt, used) ==
    IF ios THEN "null"
    ELSE IF prompt = NoPrompt \/ used THEN "null"
    ELSE "button"

\* a component that calls no callback
callNever(given, log, outcome) == log

\* lines 133-135: the optional callback
call(given, log, outcome) == IF given THEN Append(log, outcome) ELSE log

\* the button is on the page
rendered ==
    /\ mount # "unmounted"
    /\ render(isIOS, deferredPrompt, isInstallPromptUsed) = "button"

\* the component's first render on one of the given browsers, with or
\* without a callback, lines 44-50
InitButtonOver(agents, givens) ==
    /\ userAgent \in agents
    /\ props \in [onInstallPromptHandled : givens]
    /\ mount = "rendered"
    /\ deferredPrompt = NoPrompt
    /\ isIOS = FALSE
    /\ isInstallPromptUsed = FALSE
    /\ listeners = {}
    /\ prompts = <<>>
    /\ handlers = <<>>
    /\ handled = <<>>

\* the page's install button, route.ts lines 427-436, on a desktop browser
InitButton ==
    InitButtonOver({[os |-> "windows", browser |-> "firefox", words |-> {"windows", "firefox"}]},
                   {TRUE})

\* ---------------------------------------------------------- the client page
MaxSetups == 2
MaxRestarts == 1

\* the subscription the browser's push manager gives the page
PageSubscription == [endpoint |-> "E1", keys |-> "k1"]

\* the browsers the page may be loaded in: with or without the
\* Notification API and the service worker and push APIs, under each
\* permission, subscribed already only where permission is granted
Browsers ==
    {b \in [Notification : BOOLEAN, PushManager : BOOLEAN,
            permission : {"default", "granted", "denied"},
            subscription : {NoSub, PageSubscription}] :
         b.subscription # NoSub => (b.permission = "granted" /\ b.PushManager)}

\* the setup variable while enableNotifications is not running
NoSetup == [at |-> "idle", subscription |-> NoSub, status |-> 0, runs |-> 0]

\* an Enable button that is disabled during a run only
enableDisabledWhileLoading(granted, loading) == loading

\* line 453: disabled={permission === 'granted' || isLoading}
enableDisabled(granted, loading) == granted = "granted" \/ loading

\* lines 473, 485, 497: disabled={!isSubscribed}
simulateDisabled(subscribed) == ~subscribed

\* a simulate request that carries the type alone
simulateBodyTypeOnly(type, held) == [type |-> type, subscription |-> NoSub]

\* line 376: JSON.stringify({ type, subscription: subscriptionObj })
simulateBody(type, held) == [type |-> type, subscription |-> held]

\* a page that takes every response for a success
okAlways(status) == TRUE

\* line 345: response.ok
ok(status) == status \in 200..299

\* the page in one of the given browsers after its first render and the
\* effect of lines 260-265: the permission read, checkSubscription
\* started and waiting for navigator.serviceWorker.ready
InitPageOver(browsers) ==
    /\ browser \in browsers
    /\ permission = IF browser.Notification THEN browser.permission ELSE "default"
    /\ isSubscribed = FALSE
    /\ isLoading = FALSE
    /\ subscriptionObj = NoSub
    /\ setup = NoSetup
    /\ check = IF browser.Notification /\ browser.PushManager THEN "ready" ELSE "none"
    /\ restarts = 0

\* the page in a browser that supports everything and was never asked
InitPage ==
    InitPageOver({[Notification |-> TRUE, PushManager |-> TRUE,
                   permission |-> "default", subscription |-> NoSub]})

\* the module loaded under one of the given environments, the worker
\* activated and no event delivered yet, the page just rendered
InitOver(envs) ==
    /\ InitServer(envs)
    /\ InitWorker
    /\ InitButton
    /\ InitPage

\* the deployment without a .env.local: the built-in keys
Init == InitOver({Undefined})

\* POST with a subscription and no type: lines 36-61
Registering(body) ==
    /\ loaded /\ nreq < MaxRequests
    /\ body.subscription # NoSub /\ body.type = Undefined
    /\ pushSubscriptions' = StoreSubscription(pushSubscriptions, body.subscription)
    /\ last' = Answered(storedResponse(pushSubscriptions'),
                        findIndex(pushSubscriptions, body.subscription.endpoint),
                        Idle)
    /\ UNCHANGED inflight
    /\ nreq' = nreq + 1 /\ nresp' = nresp + 1
    /\ UNCHANGED configVars

\* POST with a subscription and no type from some client
Register(body) == Registering(body) /\ UNCHANGED besidesServer

\* POST with a type, the store empty after the opportunistic push:
\* lines 64-81
DispatchEmpty(body) ==
    /\ loaded /\ nreq < MaxRequests
    /\ body.type # Undefined
    /\ Len(StoreIfEmpty(pushSubscriptions, body)) = 0
    /\ pushSubscriptions' = StoreIfEmpty(pushSubscriptions, body)
    /\ last' = Answered(noSubscriptionsResponse, Absent, Idle)
    /\ UNCHANGED inflight
    /\ nreq' = nreq + 1 /\ nresp' = nresp + 1
    /\ UNCHANGED <<configVars, besidesServer>>

\* POST with a type, up to await Promise.all(sendPromises): lines 64-178.
\* The handler is suspended in the first free slot s.
DispatchStart(s, body) ==
    /\ loaded /\ nreq < MaxRequests
    /\ inflight[s].phase = "idle"
    /\ \A t \in Slots : t < s => inflight[t].phase # "idle"
    /\ body.type # Undefined
    /\ pushSubscriptions' = StoreIfEmpty(pushSubscriptions, body)
    /\ Len(pushSubscriptions') # 0
    /\ inflight' = [inflight EXCEPT ![s] = sendPromises(body.type, pushSubscriptions')]
    /\ nreq' = nreq + 1
    /\ UNCHANGED <<last, nresp, configVars, besidesServer>>

\* the transport answers the send to snapshot[i]: the async callback of
\* lines 156-176 returns its result record.  A subscription without an
\* endpoint never reaches the push service: web-push rejects it with an
\* error that names neither 410 nor expiry.
Settle(s, i, outcome) ==
    /\ inflight[s].phase = "sending"
    /\ i \in 1..Len(inflight[s].results)
    /\ ~inflight[s].results[i].settled
    /\ inflight[s].snapshot[i].endpoint = Undefined => outcome = "err_other"
    /\ inflight' = [inflight EXCEPT ![s].results[i] = sendResult(outcome)]
    /\ UNCHANGED <<pushSubscriptions, last, nreq, nresp, configVars, besidesServer>>

\* a handler that goes on at the first answer
AnySettled(s) ==
    \E i \in 1..Len(inflight[s].results) : inflight[s].results[i].settled

\* await Promise.all(sendPromises), line 178: every callback has returned
AllSettled(s) ==
    \A i \in 1..Len(inflight[s].results) : inflight[s].results[i].settled

\* Promise.all has resolved: prune and answer, lines 178-201
DispatchFinish(s) ==
    /\ inflight[s].phase = "sending"
    /\ AllSettled(s)
    /\ pushSubscriptions' =
           spliceEach(pushSubscriptions, invalidIndices(inflight[s].results))
    /\ last' = Answered(dispatchReport(inflight[s].type, inflight[s].results,
                                       pushSubscriptions'),
                        Absent, inflight[s])
    /\ inflight' = [inflight EXCEPT ![s] = Idle]
    /\ nresp' = nresp + 1
    /\ UNCHANGED <<nreq, configVars, besidesServer>>

\* POST with neither a subscription nor a type: lines 204-208
Invalid(body) ==
    /\ loaded /\ nreq < MaxRequests
    /\ body.subscription = NoSub /\ body.type = Undefined
    /\ last' = Answered(invalidResponse, Absent, Idle)
    /\ UNCHANGED inflight
    /\ nreq' = nreq + 1 /\ nresp' = nresp + 1
    /\ UNCHANGED <<pushSubscriptions, configVars, besidesServer>>

\* POST whose body is no JSON or is null: request.json() or the read of
\* body.subscription throws, the outer catch answers, lines 32-36 and
\* 210-228
Faulting(error) ==
    /\ loaded /\ nreq < MaxRequests
    /\ last' = Answered(faultResponse(error), Absent, Idle)
    /\ UNCHANGED inflight
    /\ nreq' = nreq + 1 /\ nresp' = nresp + 1
    /\ UNCHANGED <<pushSubscriptions, configVars>>

\* a POST of some client throws
Fault(error) == Faulting(error) /\ UNCHANGED besidesServer

\* GET: lines 232-246
Status ==
    /\ loaded
    /\ last' = Answered(statusResponse(pushSubscriptions, vapidKeys), Absent, Idle)
    /\ UNCHANGED <<pushSubscriptions, inflight, nreq, nresp, configVars, besidesServer>>

\* GET while the module threw at load: no handler of the module runs
Unavailable ==
    /\ ~loaded
    /\ last' = Answered(unavailableResponse, Absent, Idle)
    /\ UNCHANGED <<pushSubscriptions, inflight, nreq, nresp, configVars, besidesServer>>

\* a push event arrives: the push listener, lines 57-113.  The worker's
\* handlers share no variable, so the model delivers an event once the
\* click handler before it has ended.
Push(event) ==
    /\ nevt < MaxEvents
    /\ click.phase # "pending"
    /\ calls' = [i \in 1..Len(onPush(event)) |-> Call("showNotification", 0, Undefined)]
    /\ notification' = IF onPush(event) = <<>>
                       THEN notification
                       ELSE onPush(event)[Len(onPush(event))]
    /\ click' = NoClick
    /\ nevt' = nevt + 1
    /\ UNCHANGED besidesWorker

\* the user clicks the shown notification or one of its action buttons:
\* the notificationclick listener up to the call of clients.matchAll,
\* lines 116-141
NotificationClick(action) ==
    /\ nevt < MaxEvents
    /\ notification.shown
    /\ click.phase # "pending"
    /\ notification' = [notification EXCEPT !.shown = FALSE]
    /\ calls' = onClick(action)
    /\ IF dismissed(action)
       THEN click' = [NoClick EXCEPT !.phase = "done", !.action = action]
       ELSE click' = [NoClick EXCEPT !.phase = "pending", !.action = action,
                                        !.urlToOpen = orElse(notification.data.url, "/")]
    /\ nevt' = nevt + 1
    /\ UNCHANGED besidesWorker

\* clients.matchAll resolves: the then callback, lines 142-167, on a
\* platform with or without clients.openWindow, and the end of the
\* promise chain when the platform fails the calls of the given ops
MatchAllResolved(clientList, openWindow, failing) ==
    LET made == onClients(clientList, click.urlToOpen, openWindow)
        rejected == rejections(made, failing)
    IN  /\ click.phase = "pending"
        /\ calls' = calls \o made \o onRejected(rejected)
        /\ click' = [click EXCEPT !.phase = "done", !.clientList = clientList,
                                  !.openWindow = openWindow,
                                  !.rejected = rejected,
                                  !.unhandled = rejected \ chained(rejected)]
        /\ UNCHANGED <<notification, nevt, besidesWorker>>

\* clients.matchAll rejects: the catch callback, lines 168-170
MatchAllRejected ==
    /\ click.phase = "pending"
    /\ calls' = Append(calls, Call("console.error", 0, Undefined))
    /\ click' = [click EXCEPT !.phase = "failed"]
    /\ UNCHANGED <<notification, nevt, besidesWorker>>

\* another context of the origin (an earlier worker, of another generation
\* or of this one, or workbox's precaching) leaves a cache, up to this
\* worker's activation
OtherCache(name, entries) ==
    /\ lifecycle \in {"parsed", "installed"}
    /\ name \notin DOMAIN caches
    /\ caches' = addAll(cachesOpen(caches, name), name, entries)
    /\ UNCHANGED <<lifecycle, activation, fetched, besidesCaches>>

\* the install listener, lines 17-27, with cache.addAll fetching every url
Install ==
    /\ lifecycle = "parsed"
    /\ caches' = addAll(cachesOpen(caches, CACHE_NAME), CACHE_NAME, urlsToCache)
    /\ lifecycle' = "installed"
    /\ UNCHANGED <<activation, fetched, besidesCaches>>

\* the install listener with cache.addAll rejecting: the promise given to
\* waitUntil rejects and the browser discards the worker
InstallFailed ==
    /\ lifecycle = "parsed"
    /\ caches' = cachesOpen(caches, CACHE_NAME)
    /\ lifecycle' = "redundant"
    /\ UNCHANGED <<activation, fetched, besidesCaches>>

\* the activate listener up to the callback of caches.keys(), lines 30-41:
\* one caches.delete per stale name
Activate ==
    /\ lifecycle = "installed"
    /\ lifecycle' = "activating"
    /\ activation' = [cacheNames |-> DOMAIN caches,
                      deleting |-> staleNames(DOMAIN caches)]
    /\ UNCHANGED <<caches, fetched, besidesCaches>>

\* one caches.delete(cacheName) takes effect and resolves
Deleted(cacheName) ==
    /\ lifecycle = "activating"
    /\ cacheName \in activation.deleting
    /\ caches' = cachesDelete(caches, cacheName)
    /\ activation' = [activation EXCEPT !.deleting = @ \ {cacheName}]
    /\ UNCHANGED <<lifecycle, fetched, besidesCaches>>

\* Promise.all resolves: the promise given to waitUntil resolves, lines
\* 32-43
Activated ==
    /\ lifecycle = "activating"
    /\ activation.deleting = {}
    /\ lifecycle' = "activated"
    /\ UNCHANGED <<caches, activation, fetched, besidesCaches>>

\* a page's request reaches the active worker: the fetch listener, lines
\* 47-54
Fetch(request) ==
    /\ lifecycle = "activated"
    /\ fetched' = [request |-> request, from |-> respondWith(caches, request)]
    /\ UNCHANGED <<caches, lifecycle, activation, besidesCaches>>

\* the worker arrives at an origin: script evaluated, nothing installed
InitCaches ==
    /\ InitServer({Undefined})
    /\ InitButton
    /\ InitPage
    /\ InitListeners
    /\ caches = NoCaches
    /\ lifecycle = "parsed"
    /\ activation = NoActivation
    /\ fetched = NoFetch

NextCaches ==
    \/ \E name \in CacheNames, entries \in OtherEntries : OtherCache(name, entries)
    \/ Install
    \/ InstallFailed
    \/ Activate
    \/ \E cacheName \in CacheNames : Deleted(cacheName)
    \/ Activated
    \/ \E request \in RequestInputs : Fetch(request)

\* the worker's installation, activation and fetch handling
SpecCaches == InitCaches /\ [][NextCaches]_vars

\* the effect after the first render, lines 52-100
Effect ==
    /\ mount = "rendered"
    /\ mount' = "mounted"
    /\ isIOS' = detectIOS(userAgent)
    /\ listeners' = IF ~detectIOS(userAgent) THEN InstallEvents ELSE {}
    /\ UNCHANGED <<userAgent, props, deferredPrompt, isInstallPromptUsed, prompts,
                   handlers, handled, besidesInstall>>

\* the effect's cleanup on unmount, lines 103-108
Unmount ==
    /\ mount = "mounted"
    /\ mount' = "unmounted"
    /\ listeners' = IF ~detectIOS(userAgent) THEN listeners \ InstallEvents ELSE listeners
    /\ UNCHANGED <<userAgent, props, deferredPrompt, isIOS, isInstallPromptUsed, prompts,
                   handlers, handled, besidesInstall>>

\* the browser fires a beforeinstallprompt event at the window:
\* handleBeforeInstallPrompt, lines 73-81
BeforeInstallPrompt ==
    /\ "beforeinstallprompt" \in listeners
    /\ Len(prompts) < MaxPrompts
    /\ prompts' = Append(prompts, [didPrompt |-> FALSE, userChoice |-> "pending"])
    /\ deferredPrompt' = Len(prompts) + 1
    /\ UNCHANGED <<userAgent, props, mount, isIOS, isInstallPromptUsed, listeners,
                   handlers, handled, besidesInstall>>

\* the browser fires appinstalled: handleAppInstalled, lines 87-93
AppInstalled ==
    /\ "appinstalled" \in listeners
    /\ deferredPrompt' = NoPrompt
    /\ isInstallPromptUsed' = TRUE
    /\ UNCHANGED <<userAgent, props, mount, isIOS, listeners, prompts,
                   handlers, handled, besidesInstall>>

\* what a browser does with prompt() on an event it was called on
\* before: it rejects, or it answers with the same userChoice again
Reprompts == {"rejected", "resolved"}

\* a click on the rendered button: handleInstallClick up to its first
\* await, lines 115-125; where prompt() rejects, the catch of lines
\* 145-147 logs it
InstallClick(reprompt) ==
    /\ rendered
    /\ Len(handlers) < MaxClicks
    /\ IF deferredPrompt = NoPrompt
       THEN /\ handlers' = Append(handlers, [deferredPrompt |-> NoPrompt, at |-> "returned"])
            /\ UNCHANGED prompts
       ELSE IF prompts[deferredPrompt].didPrompt /\ reprompt = "rejected"
       THEN /\ handlers' = Append(handlers, [deferredPrompt |-> deferredPrompt, at |-> "caught"])
            /\ UNCHANGED prompts
       ELSE /\ handlers' = Append(handlers, [deferredPrompt |-> deferredPrompt, at |-> "prompt"])
            /\ prompts' = [prompts EXCEPT ![deferredPrompt].didPrompt = TRUE]
    /\ UNCHANGED <<userAgent, props, mount, deferredPrompt, isIOS, isInstallPromptUsed,
                   listeners, handled, besidesInstall>>

\* the promise of prompt() resolves: the handler goes on to await
\* userChoice, lines 125-128
PromptShown(h) ==
    /\ h \in 1..Len(handlers)
    /\ handlers[h].at = "prompt"
    /\ handlers' = [handlers EXCEPT ![h].at = "userChoice"]
    /\ UNCHANGED <<userAgent, props, mount, deferredPrompt, isIOS, isInstallPromptUsed,
                   listeners, prompts, handled, besidesInstall>>

\* the user answers the native prompt of an event
Answer(event, outcome) ==
    /\ event \in 1..Len(prompts)
    /\ prompts[event].didPrompt
    /\ prompts[event].userChoice = "pending"
    /\ prompts' = [prompts EXCEPT ![event].userChoice = outcome]
    /\ UNCHANGED <<userAgent, props, mount, deferredPrompt, isIOS, isInstallPromptUsed,
                   listeners, handlers, handled, besidesInstall>>

\* userChoice resolves: the rest of handleInstallClick, lines 128-143
ChoiceResolved(h) ==
    /\ h \in 1..Len(handlers)
    /\ handlers[h].at = "userChoice"
    /\ LET choiceResult == prompts[handlers[h].deferredPrompt].userChoice
       IN  /\ choiceResult # "pending"
           /\ handled' = call(props.onInstallPromptHandled, handled, choiceResult)
           /\ deferredPrompt' = NoPrompt
           /\ isInstallPromptUsed' = (isInstallPromptUsed \/ choiceResult = "accepted")
    /\ handlers' = [handlers EXCEPT ![h].at = "done"]
    /\ UNCHANGED <<userAgent, props, mount, isIOS, listeners, prompts, besidesInstall>>

\* the install button on every browser, with and without a callback
InitInstall ==
    /\ InitServer({Undefined})
    /\ InitWorker
    /\ InitPage
    /\ InitButtonOver(UserAgents, BOOLEAN)

NextInstall ==
    \/ Effect
    \/ Unmount
    \/ BeforeInstallPrompt
    \/ AppInstalled
    \/ \E reprompt \in Reprompts : InstallClick(reprompt)
    \/ \E h \in 1..MaxClicks : PromptShown(h)
    \/ \E event \in 1..MaxPrompts, outcome \in {"accepted", "dismissed"} : Answer(event, outcome)
    \/ \E h \in 1..MaxClicks : ChoiceResolved(h)

SpecInstall == InitInstall /\ [][NextInstall]_vars

\* checkSubscription after navigator.serviceWorker.ready resolved, lines
\* 270-274: the browser's subscription, read and set
CheckResolved ==
    /\ check = "ready"
    /\ check' = "done"
    /\ isSubscribed' = (browser.subscription # NoSub)
    /\ subscriptionObj' = browser.subscription
    /\ UNCHANGED <<permission, isLoading, browser, setup, restarts, serverVars, besidesPage>>

\* checkSubscription with getSubscription rejecting, lines 275-277
CheckFailed ==
    /\ check = "ready"
    /\ check' = "failed"
    /\ UNCHANGED <<permission, isSubscribed, isLoading, subscriptionObj, browser, setup,
                   restarts, serverVars, besidesPage>>

\* the catch and finally of enableNotifications, lines 359-365, for a run
\* that threw
failed == [setup EXCEPT !.at = "failed"]

\* a click on the Enable button: enableNotifications up to its first
\* await, lines 282-289; without the Notification API the call throws
EnableClick ==
    /\ ~enableDisabled(permission, isLoading)
    /\ setup.runs < MaxSetups
    /\ IF browser.Notification
       THEN /\ setup' = [NoSetup EXCEPT !.at = "requestPermission", !.runs = setup.runs + 1]
            /\ isLoading' = TRUE
       ELSE /\ setup' = [NoSetup EXCEPT !.at = "failed", !.runs = setup.runs + 1]
            /\ isLoading' = FALSE
    /\ UNCHANGED <<permission, isSubscribed, subscriptionObj, browser, check, restarts,
                   serverVars, besidesPage>>

\* Notification.requestPermission() resolves, lines 289-303 and 355-357:
\* the browser keeps an answer it has; the run goes on to register the
\* worker, or throws
PermissionAnswered(result) ==
    /\ setup.at = "requestPermission"
    /\ browser.permission # "default" => result = browser.permission
    /\ permission' = result
    /\ browser' = [browser EXCEPT !.permission = result]
    /\ IF result = "granted" /\ browser.PushManager
       THEN /\ setup' = [setup EXCEPT !.at = "register"]
            /\ UNCHANGED isLoading
       ELSE /\ setup' = failed
            /\ isLoading' = FALSE
    /\ UNCHANGED <<isSubscribed, subscriptionObj, check, restarts, serverVars, besidesPage>>

\* navigator.serviceWorker.register resolves, lines 303-307
Registered ==
    /\ setup.at = "register"
    /\ setup' = [setup EXCEPT !.at = "ready"]
    /\ UNCHANGED <<permission, isSubscribed, isLoading, subscriptionObj, browser, check,
                   restarts, serverVars, besidesPage>>

\* an await of the run rejects: register, getSubscription or subscribe
\* fails, or the fetch fails before the server gets the request
SetupRejected ==
    /\ setup.at \in {"register", "getSubscription", "subscribe", "fetch"}
    /\ setup' = failed
    /\ isLoading' = FALSE
    /\ UNCHANGED <<permission, isSubscribed, subscriptionObj, browser, check, restarts,
                   serverVars, besidesPage>>

\* navigator.serviceWorker.ready resolves for the run, lines 307-313; the
\* promise is the one checkSubscription awaits since the mount, so that
\* one has gone on before
SetupReady ==
    /\ setup.at = "ready"
    /\ check # "ready"
    /\ setup' = [setup EXCEPT !.at = "getSubscription"]
    /\ UNCHANGED <<permission, isSubscribed, isLoading, subscriptionObj, browser, check,
                   restarts, serverVars, besidesPage>>

\* getSubscription resolves, lines 313-316
GotSubscription ==
    /\ setup.at = "getSubscription"
    /\ setup' = IF browser.subscription # NoSub
                THEN [setup EXCEPT !.at = "fetch", !.subscription = browser.subscription]
                ELSE [setup EXCEPT !.at = "subscribe"]
    /\ UNCHANGED <<permission, isSubscribed, isLoading, subscriptionObj, browser, check,
                   restarts, serverVars, besidesPage>>

\* pushManager.subscribe resolves, lines 316-331
Subscribed ==
    /\ setup.at = "subscribe"
    /\ browser' = [browser EXCEPT !.subscription = PageSubscription]
    /\ setup' = [setup EXCEPT !.at = "fetch", !.subscription = PageSubscription]
    /\ UNCHANGED <<permission, isSubscribed, isLoading, subscriptionObj, check, restarts,
                   serverVars, besidesPage>>

\* the run after the fetch resolved with a response of this status,
\* lines 345-349: on to response.json(), or the throw
answered(status) ==
    IF ok(status)
    THEN [setup EXCEPT !.at = "json", !.status = status]
    ELSE [failed EXCEPT !.status = status]

\* the server stores the run's subscription and the page reads the
\* response, lines 335-347
SetupFetched ==
    /\ setup.at = "fetch"
    /\ Registering([type |-> Undefined, subscription |-> setup.subscription])
    /\ setup' = answered(last'.response.status)
    /\ isLoading' = (setup'.at # "failed")
    /\ UNCHANGED <<permission, isSubscribed, subscriptionObj, browser, check,
                   restarts, besidesPage>>

\* the server's handler throws on the run's request and the page reads
\* the 500, lines 335-347
SetupFetchFaulted(error) ==
    /\ setup.at = "fetch"
    /\ Faulting(error)
    /\ setup' = answered(last'.response.status)
    /\ isLoading' = (setup'.at # "failed")
    /\ UNCHANGED <<permission, isSubscribed, subscriptionObj, browser, check, restarts,
                   besidesPage>>

\* the response was ok and response.json() resolves: the end of the run,
\* lines 349-354 and 363-365
SetupDone ==
    /\ setup.at = "json"
    /\ isSubscribed' = TRUE
    /\ subscriptionObj' = setup.subscription
    /\ isLoading' = FALSE
    /\ setup' = [setup EXCEPT !.at = "done"]
    /\ UNCHANGED <<permission, browser, check, restarts, serverVars, besidesPage>>

\* a click on a simulate button: simulateNotification up to the server's
\* handling of its request, lines 369-377
Simulate(type) ==
    /\ ~simulateDisabled(isSubscribed)
    /\ \/ DispatchStart(1, simulateBody(type, subscriptionObj))
       \/ DispatchEmpty(simulateBody(type, subscriptionObj))

\* the server process restarts: the module is loaded anew, lines 10-13, and
\* the handlers that were suspended are gone
Restart ==
    /\ restarts < MaxRestarts
    /\ restarts' = restarts + 1
    /\ pushSubscriptions' = <<>>
    /\ inflight' = [s \in Slots |-> Idle]
    /\ nresp' = nreq
    /\ UNCHANGED <<last, nreq, configVars, permission, isSubscribed, isLoading,
                   subscriptionObj, browser, setup, check, besidesPage>>

\* a step of the worker under the given push events, answers of
\* clients.matchAll and sets of failing ops
NextWorkerOver(events, clientLists, failings) ==
    \/ \E event \in events : Push(event)
    \/ \E action \in ActionInputs : NotificationClick(action)
    \/ \E clientList \in clientLists, openWindow \in BOOLEAN, failing \in failings :
           MatchAllResolved(clientList, openWindow, failing)
    \/ MatchAllRejected

\* the answers of clients.matchAll with at most one client
OneClientLists == {clientList \in ClientLists : Len(clientList) <= 1}

NextWorker == NextWorkerOver(PushEvents, OneClientLists, {{}})

\* the service worker under every push event
SpecWorker == Init /\ [][NextWorker]_vars

\* the push events of SpecClicks: no JSON, or a payload with title and
\* type whose data.url is any of PayloadInputs'
ClickPushEvents ==
    {event \in PushEvents :
         \/ event.kind = "text"
         \/ /\ event.kind = "json"
            /\ event.data.title = "A New Spark!"
            /\ event.data.type = "new_match"}

\* the push events of SpecOptions: JSON objects that set or leave out each
\* top-level option, the JSON body null and a body that is no JSON
OptionPushEvents ==
    {[kind |-> k, data |-> NoPayload] : k \in {"text", "null"}}
        \cup {[kind |-> "json", data |-> payload] : payload \in OptionPayloads}

NextOptions == NextWorkerOver(OptionPushEvents, {<<>>}, {{}})

\* the service worker under pushes with and without top-level options
SpecOptions == Init /\ [][NextOptions]_vars

NextClicks == NextWorkerOver(ClickPushEvents, ClientLists, SUBSET WindowOps)

\* the service worker under every answer of clients.matchAll and every
\* failure of the window calls
SpecClicks == Init /\ [][NextClicks]_vars

\* the request bodies a client may send: any type with any subscription
AllBodies == [type : TypeInputs \cup {Undefined}, subscription : SubInputs \cup {NoSub}]

\* the bodies of Spec: one catalog type or none, each endpoint under one
\* keying material
Bodies ==
    {body \in AllBodies :
         body.type \in {"new_match", Undefined} /\ body.subscription.keys # "k2"}

\* the bodies of SpecKeys: one catalog type or none, every subscription
KeyedBodies == {body \in AllBodies : body.type \in {"new_match", Undefined}}

\* the bodies of SpecTypes: every type, with one subscription or none
TypedBodies ==
    {body \in AllBodies :
         body.subscription \in {[endpoint |-> "E1", keys |-> "k1"], NoSub}}

\* the largest store the inputs can build
MaxStore == Cardinality({sub.endpoint : sub \in SubInputs})

\* a step of the server whose requests carry the given bodies and whose
\* dispatch handlers are suspended in the given slots
NextOver(bodies, slots) ==
    \/ \E body \in bodies : Register(body)
    \/ \E body \in bodies : DispatchEmpty(body)
    \/ \E s \in slots, body \in bodies : DispatchStart(s, body)
    \/ \E s \in slots, i \in 1..MaxStore, outcome \in Outcomes : Settle(s, i, outcome)
    \/ \E s \in slots : DispatchFinish(s)
    \/ \E body \in bodies : Invalid(body)
    \/ \E error \in Faults : Fault(error)

Next == NextOver(Bodies, Slots)

\* the server under overlapping dispatches
Spec == Init /\ [][Next]_vars

NextKeys == NextOver(KeyedBodies, {1})

\* the server under re-registrations with new keying material, one
\* dispatch at a time
SpecKeys == Init /\ [][NextKeys]_vars

NextTypes == NextOver(TypedBodies, Slots)

\* the server under requests of every type
SpecTypes == Init /\ [][NextTypes]_vars

\* the server with the event loop resuming every dispatch handler whose
\* Promise.all has resolved; the transport owes no answer
SpecLive ==
    /\ Init /\ [][NextKeys]_vars
    /\ \A s \in Slots : WF_vars(DispatchFinish(s))

\* the push event the worker receives for a send the push service took:
\* JSON.stringify(payload) (route.ts line 160) read back by
\* event.data.json() (service-worker.js line 67); JSON.stringify(undefined)
\* is undefined, a push without a body
pushEventOf(payload) ==
    IF payload = NoPayload
    THEN [kind |-> "none", data |-> NoPayload]
    ELSE [kind |-> "json", data |-> payload]

\* the push service delivers to the worker the push of a send it took
\* from a dispatch that is still suspended
Deliver(s, i) ==
    /\ inflight[s].phase = "sending"
    /\ i \in 1..Len(inflight[s].results)
    /\ inflight[s].results[i].success
    /\ Push(pushEventOf(inflight[s].payload))

\* the bodies of SpecEndToEnd: dispatches of every catalog type that
\* carry the page's subscription
DeepLinkBodies ==
    {body \in AllBodies :
         /\ body.type \in CatalogTypes
         /\ body.subscription = [endpoint |-> "E1", keys |-> "k1"]}

NextEndToEnd ==
    \/ \E body \in DeepLinkBodies : DispatchStart(1, body)
    \/ \E i \in 1..MaxStore, outcome \in Outcomes : Settle(1, i, outcome)
    \/ DispatchFinish(1)
    \/ \E i \in 1..MaxStore : Deliver(1, i)
    \/ \E action \in {"", "view", "dismiss"} : NotificationClick(action)
    \/ \E clientList \in OneClientLists, openWindow \in BOOLEAN :
           MatchAllResolved(clientList, openWindow, {})
    \/ MatchAllRejected

\* dispatch, delivery, display and click: the server and the worker joined
\* by the push service
SpecEndToEnd == Init /\ [][NextEndToEnd]_vars

\* the page in every browser
InitPages ==
    /\ InitServer({Undefined})
    /\ InitWorker
    /\ InitButton
    /\ InitPageOver(Browsers)

NextPage ==
    \/ CheckResolved
    \/ CheckFailed
    \/ EnableClick
    \/ \E result \in {"default", "granted", "denied"} : PermissionAnswered(result)
    \/ Registered
    \/ SetupRejected
    \/ SetupReady
    \/ GotSubscription
    \/ Subscribed
    \/ SetupFetched
    \/ \E error \in Faults : SetupFetchFaulted(error)
    \/ SetupDone
    \/ \E type \in CatalogTypes : Simulate(type)
    \/ \E i \in 1..MaxStore, outcome \in Outcomes : Settle(1, i, outcome)
    \/ DispatchFinish(1)
    \/ Restart

\* the client page with its server
SpecPage == InitPages /\ [][NextPage]_vars

\* the bodies of SpecStatus: registrations of every endpoint and
\* dispatches of one type
StatusBodies ==
    {body \in AllBodies :
         /\ body.type \in {"new_match", Undefined}
         /\ body.subscription \in {[endpoint |-> "E1", keys |-> "k1"],
                                    [endpoint |-> "E2", keys |-> "k1"], NoSub}}

InitStatus == InitOver(EnvInputs)

NextStatus ==
    \/ NextOver(StatusBodies, {1})
    \/ Status
    \/ Unavailable

\* the server under every environment, with status queries
SpecStatus == InitStatus /\ [][NextStatus]_vars

\* ================================================================ claims
\* the store holds a record with this endpoint
Stored(store, endpoint) == \E i \in 1..Len(store) : store[i].endpoint = endpoint

\* the snapshot without the entries whose send returned shouldRemove, in
\* the snapshot's order
RECURSIVE RetainedFrom(_, _, _)
RetainedFrom(snapshot, results, i) ==
    IF i > Len(snapshot) THEN <<>>
    ELSE IF results[i].shouldRemove
         THEN RetainedFrom(snapshot, results, i + 1)
         ELSE <<snapshot[i]>> \o RetainedFrom(snapshot, results, i + 1)

\* a step in which the handler of a POST with this body runs up to its
\* response or its await
HandlesPost(body) ==
    \/ Register(body)
    \/ DispatchEmpty(body)
    \/ \E s \in Slots : DispatchStart(s, body)
    \/ Invalid(body)

\* C1: in every reachable state the store holds at most one subscription
\* per endpoint value
C1_UniqueEndpoints ==
    \A i, j \in 1..Len(pushSubscriptions) :
        i # j => pushSubscriptions[i].endpoint # pushSubscriptions[j].endpoint

\* C1 witness: a full store after a re-registration of a stored endpoint
C1_Witness ==
    /\ Len(pushSubscriptions) = 3
    /\ last.existingIndex >= 1

\* C2: (as claimed) when a dispatch completes and prunes, every
\* subscription that leaves the store is one whose own endpoint reported
\* permanent failure to that dispatch, other dispatches overlapping or not
C2_PruneOnlyOwnFailures ==
    [][\A s \in Slots :
          DispatchFinish(s) =>
              \A k \in 1..Len(pushSubscriptions) :
                  ~Stored(pushSubscriptions', pushSubscriptions[k].endpoint) =>
                      \E i \in 1..Len(inflight[s].snapshot) :
                          /\ inflight[s].snapshot[i].endpoint
                                 = pushSubscriptions[k].endpoint
                          /\ inflight[s].results[i].shouldRemove]_vars

\* C3: a dispatch that finishes on the store it took its snapshot of
\* leaves exactly the subscriptions that did not report permanent
\* failure, in their original order, whatever the order the sends
\* completed in
C3_PruneExactlyGone ==
    [][\A s \in Slots :
          (DispatchFinish(s) /\ pushSubscriptions = inflight[s].snapshot) =>
              pushSubscriptions'
                  = RetainedFrom(inflight[s].snapshot, inflight[s].results, 1)]_vars

\* C3 witness: three subscriptions, the first and the third gone, the
\* second failed transiently and is the one left
C3_Witness ==
    /\ last.dispatch.phase = "sending"
    /\ Len(last.dispatch.snapshot) = 3
    /\ last.dispatch.results[1].shouldRemove
    /\ ~last.dispatch.results[2].shouldRemove /\ ~last.dispatch.results[2].success
    /\ last.dispatch.results[3].shouldRemove
    /\ pushSubscriptions = <<last.dispatch.snapshot[2]>>

\* C4: (as claimed) a dispatch request whose type is no catalog key never
\* mutates the store and is answered with a 4xx error
C4_UnknownTypeRejected ==
    [][/\ \A body \in AllBodies :
            (body.type # Undefined /\ body.type \notin CatalogTypes
                 /\ HandlesPost(body)) =>
                pushSubscriptions' = pushSubscriptions
       /\ \A body \in AllBodies :
            (body.type # Undefined /\ body.type \notin CatalogTypes
                 /\ DispatchEmpty(body)) =>
                last'.response.status \in 400..499
       /\ \A s \in Slots :
            (DispatchFinish(s) /\ inflight[s].type \notin CatalogTypes) =>
                /\ pushSubscriptions' = pushSubscriptions
                /\ last'.response.status \in 400..499]_vars

\* C5: a dispatch request without a subscription, received while the
\* store is empty, is answered 400 'No subscriptions found', sends
\* nothing and leaves the store empty
C5_EmptyStoreDispatch ==
    [][\A body \in AllBodies :
          (body.type # Undefined /\ body.subscription = NoSub
               /\ pushSubscriptions = <<>> /\ HandlesPost(body)) =>
              /\ last'.response.status = 400
              /\ last'.response.error = "No subscriptions found"
              /\ inflight' = inflight
              /\ pushSubscriptions' = <<>>]_vars

\* C5 witness: the empty-store answer, the store still empty
C5_Witness ==
    /\ last.response.status = 400
    /\ last.response.error = "No subscriptions found"
    /\ pushSubscriptions = <<>>
    /\ \A s \in Slots : inflight[s].phase = "idle"

\* C6: in a dispatch, suspended or finished, every subscription of the
\* snapshot has had exactly one send, whatever the other sends returned,
\* and a finished dispatch has a result for every one of them
C6_OneAttemptEach ==
    /\ \A s \in Slots :
           inflight[s].phase = "sending" =>
               /\ Len(inflight[s].sends) = Len(inflight[s].snapshot)
               /\ Len(inflight[s].results) = Len(inflight[s].snapshot)
               /\ \A i \in 1..Len(inflight[s].snapshot) : inflight[s].sends[i] = 1
    /\ last.dispatch.phase = "sending" =>
           /\ Len(last.dispatch.sends) = Len(last.dispatch.snapshot)
           /\ Len(last.dispatch.results) = Len(last.dispatch.snapshot)
           /\ \A i \in 1..Len(last.dispatch.snapshot) :
                  last.dispatch.sends[i] = 1 /\ last.dispatch.results[i].settled

\* C6 witness: a finished dispatch whose first send failed permanently,
\* whose second failed transiently and whose third succeeded
C6_Witness ==
    /\ last.dispatch.phase = "sending"
    /\ Len(last.dispatch.snapshot) = 3
    /\ last.dispatch.results[1].shouldRemove
    /\ ~last.dispatch.results[2].success /\ ~last.dispatch.results[2].shouldRemove
    /\ last.dispatch.results[3].success
    /\ last.dispatch.sends = <<1, 1, 1>>

\* C7: the report of a dispatch over N subscriptions has sent + failed = N,
\* sent the number of sends that succeeded, totalSubscriptions the store
\* size after pruning, which is N minus the permanent failures when the
\* store is still the snapshot
C7_ReportCounts ==
    [][\A s \in Slots :
          DispatchFinish(s) =>
              LET results == inflight[s].results
                  N == Len(inflight[s].snapshot)
                  K == Cardinality({i \in 1..N : results[i].shouldRemove})
              IN  /\ last'.response.sent + last'.response.failed = N
                  /\ last'.response.sent
                         = Cardinality({i \in 1..N : results[i].success})
                  /\ last'.response.totalSubscriptions = Len(pushSubscriptions')
                  /\ pushSubscriptions = inflight[s].snapshot =>
                         last'.response.totalSubscriptions = N - K]_vars

\* C7 witness: three sends, one succeeded, one failed transiently, one
\* was pruned
C7_Witness ==
    /\ last.dispatch.phase = "sending"
    /\ last.response.sent = 1
    /\ last.response.failed = 2
    /\ last.response.totalSubscriptions = 2
    /\ Len(pushSubscriptions) = 2

\* C8: a dispatch whose sends all failed is answered with the normal
\* report, status 200 and sent = 0, which differs in status and error from
\* the answer to a dispatch on an empty store
C8_AllFailedStillReports ==
    [][/\ \A s \in Slots :
            (DispatchFinish(s)
                 /\ \A i \in 1..Len(inflight[s].results) :
                        ~inflight[s].results[i].success) =>
                /\ last'.response.status = 200
                /\ last'.response.error = Undefined
                /\ last'.response.sent = 0
                /\ last'.response.failed = Len(inflight[s].snapshot)
       /\ \A body \in AllBodies :
            DispatchEmpty(body) =>
                /\ last'.response.status = 400
                /\ last'.response.error = "No subscriptions found"
                /\ last'.response.sent = Absent]_vars

\* C8 witness: a report of two failed sends and none sent
C8_Witness ==
    /\ last.dispatch.phase = "sending"
    /\ last.response.status = 200
    /\ last.response.sent = 0
    /\ last.response.failed = 2

\* C9: registering a stored endpoint with other keying material leaves
\* one record for the endpoint, holding the new material, and the count
\* as it was
C9_ReRegisterReplaces ==
    [][\A body \in AllBodies :
          (Register(body)
               /\ \E i \in 1..Len(pushSubscriptions) :
                      /\ pushSubscriptions[i].endpoint = body.subscription.endpoint
                      /\ pushSubscriptions[i].keys # body.subscription.keys) =>
              /\ Cardinality({i \in 1..Len(pushSubscriptions') :
                      pushSubscriptions'[i].endpoint = body.subscription.endpoint}) = 1
              /\ \A i \in 1..Len(pushSubscriptions') :
                      pushSubscriptions'[i].endpoint = body.subscription.endpoint =>
                          pushSubscriptions'[i] = body.subscription
              /\ Len(pushSubscriptions') = Len(pushSubscriptions)
              /\ last'.response.subscriptionsCount = Len(pushSubscriptions)]_vars

\* C9 witness: the second request re-registered the only endpoint, which
\* now holds the second keying material
C9_Witness ==
    /\ nreq = 2
    /\ last.existingIndex = 1
    /\ last.response.subscriptionsCount = 1
    /\ pushSubscriptions = <<[endpoint |-> "E1", keys |-> "k2"]>>

\* C10: a new endpoint is appended after all existing entries; a stored
\* endpoint is replaced at its position, no entry moving
C10_InsertionOrder ==
    [][\A body \in AllBodies :
          Register(body) =>
              IF Stored(pushSubscriptions, body.subscription.endpoint)
              THEN /\ Len(pushSubscriptions') = Len(pushSubscriptions)
                   /\ \A i \in 1..Len(pushSubscriptions) :
                          IF pushSubscriptions[i].endpoint = body.subscription.endpoint
                          THEN pushSubscriptions'[i] = body.subscription
                          ELSE pushSubscriptions'[i] = pushSubscriptions[i]
              ELSE /\ Len(pushSubscriptions') = Len(pushSubscriptions) + 1
                   /\ \A i \in 1..Len(pushSubscriptions) :
                          pushSubscriptions'[i] = pushSubscriptions[i]
                   /\ pushSubscriptions'[Len(pushSubscriptions')] = body.subscription]_vars

\* C10 witness: the first of two entries was re-registered and is still
\* the first
C10_Witness ==
    /\ last.existingIndex = 1
    /\ Len(pushSubscriptions) = 2
    /\ pushSubscriptions[1] = [endpoint |-> "E1", keys |-> "k2"]
    /\ pushSubscriptions[2].endpoint = "E2"

\* C11: a request that carries a subscription and no type stores that
\* subscription, starts no send, and is answered with subscriptionsCount
\* equal to the size of the store right after the registration
C11_RegistersOnly ==
    [][\A body \in AllBodies :
          (body.subscription # NoSub /\ body.type = Undefined /\ HandlesPost(body)) =>
              /\ \E i \in 1..Len(pushSubscriptions') :
                     pushSubscriptions'[i] = body.subscription
              /\ inflight' = inflight
              /\ last'.response.status = 200
              /\ last'.response.subscriptionsCount = Len(pushSubscriptions')]_vars

\* C11 witness: a registration answered with count 2 while a dispatch
\* that started on one subscription still has that one send
C11_Witness ==
    /\ last.response.message = "Subscription stored successfully"
    /\ last.response.subscriptionsCount = 2
    /\ Len(pushSubscriptions) = 2
    /\ inflight[1].phase = "sending"
    /\ inflight[1].sends = <<1>>

\* C12: (as claimed) a registration whose subscription has no endpoint is
\* answered with a 4xx error and leaves the store unchanged, and no record
\* without an endpoint is ever in the store
C12_EndpointRequired ==
    /\ [](\A i \in 1..Len(pushSubscriptions) :
              pushSubscriptions[i].endpoint # Undefined)
    /\ [][\A body \in AllBodies :
             (body.subscription # NoSub /\ body.subscription.endpoint = Undefined
                  /\ body.type = Undefined /\ HandlesPost(body)) =>
                 /\ pushSubscriptions' = pushSubscriptions
                 /\ last'.response.status \in 400..499]_vars

C14_NeitherFieldRejected ==
    [][\A body \in AllBodies :
          (body.subscription = NoSub /\ body.type = Undefined /\ HandlesPost(body)) =>
              /\ last'.response.status \in 400..499
              /\ last'.response.error # Undefined
              /\ inflight' = inflight
              /\ pushSubscriptions' = pushSubscriptions]_vars

\* C14 witness: the invalid-body answer on a store of two with a dispatch
\* in flight
C14_Witness ==
    /\ last.response = invalidResponse
    /\ Len(pushSubscriptions) = 2
    /\ inflight[1].phase = "sending"

\* every POST received so far has one response or is a dispatch awaiting
\* its sends; a fault is answered 5xx with error and details; a finished
\* dispatch is answered 200 whatever its sends returned, and only a fault
\* is answered 5xx
OneResponseEach ==
    /\ [](nresp + Cardinality({s \in Slots : inflight[s].phase = "sending"}) = nreq)
    /\ [][/\ \A error \in Faults :
               Fault(error) =>
                   /\ last'.response.status \in 500..599
                   /\ last'.response.error # Undefined
                   /\ last'.response.details # Undefined
                   /\ pushSubscriptions' = pushSubscriptions
          /\ \A s \in Slots : DispatchFinish(s) => last'.response.status = 200
          /\ (nresp' # nresp /\ last'.response.status \in 500..599) =>
                 \E error \in Faults : Fault(error)]_vars

\* C15: (as claimed) every POST request terminates with exactly one
\* response, a fault is answered 5xx with error and details, and a
\* transport error alone never produces a 5xx
C15_AlwaysAnswered ==
    /\ OneResponseEach
    /\ \A s \in Slots : (inflight[s].phase = "sending") ~> (inflight[s].phase = "idle")

\* C15 (amended): a POST request is answered exactly once, a dispatch once
\* all its sends have settled; a fault is answered 5xx with error and
\* details, and a transport error alone never produces a 5xx
C15_AnsweredOnceSettled ==
    /\ OneResponseEach
    /\ \A s \in Slots :
           (inflight[s].phase = "sending" /\ AllSettled(s))
               ~> (inflight[s].phase = "idle")

\* C15 witness: a fault answered 500 with the parser's message while a
\* dispatch whose only send failed awaits its resumption
C15_Witness ==
    /\ last.response.status = 500
    /\ last.response.details = message("SyntaxError")
    /\ inflight[1].phase = "sending"
    /\ AllSettled(1)
    /\ ~inflight[1].results[1].success

\* C16: (as claimed) a status query is answered with the store's size and
\* with vapidConfigured true exactly when the configured public key is
\* neither the placeholder of the environment template nor the one the
\* handler names, and leaves the store unchanged
C16_StatusReportsPlaceholder ==
    [][(Status \/ Unavailable) =>
          /\ last'.response.subscriptionsCount = Len(pushSubscriptions)
          /\ last'.response.vapidConfigured
                 = (vapidKeys.publicKey \notin {ComparedPlaceholder, TemplatePlaceholder})
          /\ pushSubscriptions' = pushSubscriptions]_vars

\* C17: (as claimed) every push event results in exactly one
\* showNotification call, and for an event without a body or with a body
\* that is no JSON the notification shown is the fallback, titled
\* 'New Notification' with data.url '/'
C17_OneNotificationPerPush ==
    [][\A event \in PushEvents :
          Push(event) =>
              /\ Len(calls') = 1
              /\ calls'[1].op = "showNotification"
              /\ event.kind \in {"none", "text"} =>
                     /\ notification'.shown
                     /\ notification'.title = "New Notification"
                     /\ notification'.data.url = "/"]_vars

\* C18: (as claimed) for a push whose body is a JSON object the shown
\* data.url is the payload's data.url, '/' when that is absent, empty or
\* null, data.type is the payload's data.type, 'unknown' when that is
\* absent, and the shown data.url is never empty, null or undefined
C18_DataDefaults ==
    [][\A event \in PushEvents :
          (event.kind = "json" /\ Push(event)) =>
              /\ notification'.data.url
                     = (IF event.data.url \in {Undefined, Null, ""}
                        THEN "/" ELSE event.data.url)
              /\ notification'.data.type
                     = (IF event.data.type = Undefined
                        THEN "unknown" ELSE event.data.type)
              /\ notification'.data.url \notin {Undefined, Null, ""}]_vars

\* the indices in calls of the focus, navigate and openWindow calls
WindowCalls ==
    {k \in 1..Len(calls) : calls[k].op \in {"focus", "navigate", "openWindow"}}

\* the click handler of the last event has ended and its action was not
\* 'dismiss'
ClickHandled ==
    /\ click.phase \in {"done", "failed"}
    /\ click.action # "dismiss"

\* C19: (as claimed) a click whose action id is 'dismiss' triggers no
\* focus, navigate or open call; a click with any other action id, or
\* none, triggers at least one
C19_DismissOnlySkips ==
    /\ click.action = "dismiss" => WindowCalls = {}
    /\ ClickHandled => WindowCalls # {}

\* C19 (amended): a click whose action id is 'dismiss' triggers no focus,
\* navigate or open call; a click with any other action id, or none,
\* triggers at least one when clients.matchAll resolves and either a
\* client is focusable or the platform has clients.openWindow, and none
\* when the lookup fails or finds neither
C19_DismissSkipsOthersTry ==
    /\ click.action = "dismiss" => WindowCalls = {}
    /\ ClickHandled =>
           (WindowCalls # {}
                <=> /\ click.phase = "done"
                    /\ (firstFocusable(click.clientList) >= 1 \/ click.openWindow))

\* C19 witness: a click on an action other than the catalog's two focused
\* a window and navigated it
C19_Witness ==
    /\ click.phase = "done"
    /\ click.action = "later"
    /\ \E k \in WindowCalls : calls[k].op = "navigate"

\* the target of a click on the notification shown last
TargetUrl ==
    IF notification.data.url \in {Undefined, Null, ""}
    THEN "/" ELSE notification.data.url

\* the calls in calls with this op
CallsOf(op) == {k \in 1..Len(calls) : calls[k].op = op}

\* C20: (as claimed) after a non-dismiss click either the first focusable
\* client was focused and no window opened, or, no client being
\* focusable, one window was opened at the target URL and no client
\* focused
C20_FocusOrOpen ==
    ClickHandled =>
        IF firstFocusable(click.clientList) >= 1
        THEN /\ \E k \in CallsOf("focus") :
                    /\ CallsOf("focus") = {k}
                    /\ calls[k].client = firstFocusable(click.clientList)
             /\ CallsOf("openWindow") = {}
        ELSE /\ \E k \in CallsOf("openWindow") :
                    /\ CallsOf("openWindow") = {k}
                    /\ calls[k].url = TargetUrl
             /\ CallsOf("focus") = {}

\* C20 (amended): after a non-dismiss click whose clients.matchAll
\* resolved, either the first focusable client was focused and no window
\* opened, or, no client being focusable and the platform having
\* clients.openWindow, one window was opened at the target URL and no
\* client focused; without clients.openWindow, or when the lookup fails,
\* no client is focused and no window opened
C20_FocusOrOpenIfAble ==
    ClickHandled =>
        IF click.phase = "done" /\ firstFocusable(click.clientList) >= 1
        THEN /\ \E k \in CallsOf("focus") :
                    /\ CallsOf("focus") = {k}
                    /\ calls[k].client = firstFocusable(click.clientList)
             /\ CallsOf("openWindow") = {}
        ELSE IF click.phase = "done" /\ click.openWindow
        THEN /\ \E k \in CallsOf("openWindow") :
                    /\ CallsOf("openWindow") = {k}
                    /\ calls[k].url = TargetUrl
             /\ CallsOf("focus") = {}
        ELSE CallsOf("focus") = {} /\ CallsOf("openWindow") = {}

\* C20 witness: of two clients the second is the first focusable one and
\* was focused, no window opened
C20_Witness ==
    /\ click.phase = "done"
    /\ Len(click.clientList) = 2
    /\ ~click.clientList[1].focusable /\ click.clientList[2].focusable
    /\ \E k \in CallsOf("focus") : calls[k].client = 2
    /\ CallsOf("openWindow") = {}

\* the location a url names for a window of the application: new
\* URL(url, origin).href
location(url) ==
    CASE url = "/" -> "https://app.example/"
      [] url = "/chats/123" -> "https://app.example/chats/123"
      [] OTHER -> url

\* the click handler of the last event focused an existing window
FocusedExisting ==
    /\ ClickHandled
    /\ click.phase = "done"
    /\ firstFocusable(click.clientList) >= 1

\* C21: (as claimed) on a non-dismiss click that focuses an existing
\* window, the window is navigated exactly when its location differs from
\* the target URL's; a window already showing the target location is
\* focused without a navigate call
C21_NavigateIffElsewhere ==
    FocusedExisting =>
        (CallsOf("navigate") # {}
             <=> location(click.clientList[firstFocusable(click.clientList)].url)
                     # location(click.urlToOpen))

\* C22: (as claimed) a failure of matchAll, focus, navigate or openWindow
\* in the click handler is caught and logged by the handler, and none is
\* left as an unhandled rejection
C22_FailuresCaught ==
    /\ click.phase = "failed" => CallsOf("console.error") # {}
    /\ click.rejected # {} => CallsOf("console.error") # {}
    /\ click.unhandled = {}

\* the deep link the catalog defines for the type of the notification
\* shown last
DeepLink == notificationPayloads(notification.data.type).url

\* the calls of the last event's handler hold a focus and a navigate to
\* this url
FocusedAndNavigated(url) ==
    /\ CallsOf("focus") # {}
    /\ \E k \in CallsOf("navigate") : calls[k].url = url

\* the calls of the last event's handler hold an openWindow at this url
Opened(url) == \E k \in CallsOf("openWindow") : calls[k].url = url

\* the delivery of a dispatch of a catalog type shows a notification whose
\* data.type is that type and whose data.url is the type's deep link
DeliveredAsDispatched ==
    [][\A s \in Slots, i \in 1..MaxStore :
          (Deliver(s, i) /\ inflight[s].type \in CatalogTypes) =>
              /\ notification'.shown
              /\ notification'.data.type = inflight[s].type
              /\ notification'.data.url = notificationPayloads(inflight[s].type).url]_vars

\* the last event was a default or 'view' click on a notification of a
\* catalog type and its handler has ended
ViewClickHandled ==
    /\ click.phase \in {"done", "failed"}
    /\ click.action \in {"", "view"}
    /\ notification.data.type \in CatalogTypes

\* C23: (as claimed) for each catalog type T, a dispatch of T that is
\* delivered and shown has data.type T, and a default or 'view' click on
\* it focuses and navigates a window to, or opens a window at, exactly the
\* deep link the catalog defines for T
C23_DeepLinkEndToEnd ==
    /\ DeliveredAsDispatched
    /\ [](ViewClickHandled => (FocusedAndNavigated(DeepLink) \/ Opened(DeepLink)))

\* C23 (amended): for each catalog type T, a dispatch of T that is
\* delivered and shown has data.type T, and a default or 'view' click on
\* it whose window lookup succeeds focuses and navigates the first
\* focusable window to the deep link of T or, none being focusable and
\* the platform having clients.openWindow, opens a window at it; every
\* navigate or open call of the click has the deep link of T as its url
C23_DeepLinkWhenAble ==
    /\ DeliveredAsDispatched
    /\ [](ViewClickHandled =>
             /\ \A k \in CallsOf("navigate") \cup CallsOf("openWindow") :
                    calls[k].url = DeepLink
             /\ (click.phase = "done" /\ firstFocusable(click.clientList) >= 1) =>
                    FocusedAndNavigated(DeepLink)
             /\ (click.phase = "done" /\ firstFocusable(click.clientList) = 0
                     /\ click.openWindow) =>
                    Opened(DeepLink))

\* C23 witness: a 'view' click on a delivered new_message notification
\* focused the open window and navigated it to /chats/123
C23_Witness ==
    /\ click.phase = "done"
    /\ click.action = "view"
    /\ notification.data.type = "new_message"
    /\ firstFocusable(click.clientList) = 1
    /\ \E k \in CallsOf("navigate") : calls[k].url = "/chats/123" /\ calls[k].client = 1

\* a step from the activate handler's start on leaves the cache named
\* CACHE_NAME in existence and its entries as they were
CurrentCacheKept ==
    (lifecycle = "installed" \/ lifecycle = "activating") =>
        /\ CACHE_NAME \in DOMAIN caches'
        /\ caches'[CACHE_NAME] = caches[CACHE_NAME]

\* C24: once the activate handler has completed no cache of another name
\* than CACHE_NAME is left, and from the handler's start on the cache named
\* CACHE_NAME exists and keeps its entries
C24_OnlyCurrentGeneration ==
    /\ [](lifecycle = "activated" => DOMAIN caches = {CACHE_NAME})
    /\ [][CurrentCacheKept]_vars

\* C24 witness: activation found the caches of two other names beside its
\* own, which an earlier install had filled too, and left its own alone
C24_Witness ==
    /\ lifecycle = "activated"
    /\ activation.cacheNames = CacheNames
    /\ DOMAIN caches = {CACHE_NAME}
    /\ caches[CACHE_NAME] = urlsToCache \cup {"/old.js"}

\* C25: the fetch listener answers from the cache exactly when some cache
\* holds a response for the request, from the network otherwise, and a
\* fetch adds, replaces and removes no cache entry
C25_CacheFirstReadOnly ==
    [][\A request \in RequestInputs :
          Fetch(request) =>
              /\ fetched'.from
                     = (IF \E name \in DOMAIN caches : request \in caches[name]
                        THEN "cache" ELSE "network")
              /\ caches' = caches]_vars

\* C25 witness: a cached asset answered from the cache
C25_Witness ==
    /\ fetched.request = "/manifest.json"
    /\ fetched.from = "cache"
    /\ "/manifest.json" \in caches[CACHE_NAME]

C27_NothingOnIOSSafari ==
    /\ (userAgent.os = "ios" /\ userAgent.browser = "safari") =>
           (~rendered /\ listeners \cap InstallEvents = {})
    /\ rendered => deferredPrompt # NoPrompt

\* C27 witness: the component is mounted on iOS Safari, and nothing
\* listens
C27_Witness ==
    /\ userAgent.os = "ios"
    /\ userAgent.browser = "safari"
    /\ mount = "mounted"
    /\ isIOS
    /\ listeners = {}

\* the payloads a dispatch handler's sends carried
payloadsOf(dispatch) == {dispatch.transmitted[i] : i \in 1..Len(dispatch.transmitted)}

\* the dispatch handlers in flight and the one that finished last
Dispatches == {inflight[s] : s \in Slots} \cup {last.dispatch}

\* C28: any two dispatches of the same type, in flight or finished, sent
\* one and the same payload to each of their subscribers, whatever the
\* store held and whatever else the requests carried
C28_PayloadByTypeOnly ==
    \A d1 \in Dispatches, d2 \in Dispatches :
        (d1.phase = "sending" /\ d2.phase = "sending" /\ d1.type = d2.type) =>
            Cardinality(payloadsOf(d1) \cup payloadsOf(d2)) = 1

\* C28 witness: two dispatches of one type in flight over different
\* stores, one of them to two subscribers
C28_Witness ==
    /\ inflight[1].phase = "sending"
    /\ inflight[2].phase = "sending"
    /\ inflight[1].type = "new_match"
    /\ inflight[2].type = "new_match"
    /\ Len(inflight[1].snapshot) = 1
    /\ Len(inflight[2].snapshot) = 2
    /\ inflight[2].snapshot[1].endpoint # inflight[2].snapshot[2].endpoint
    /\ payloadsOf(inflight[1]) = payloadsOf(inflight[2])

\* the dispatch handler in slot s has sends that were not answered
SendsPending(s) ==
    /\ inflight[s].phase = "sending"
    /\ \E i \in 1..Len(inflight[s].results) : ~inflight[s].results[i].settled

\* a step in which the dispatch handler of slot s leaves the store alone
\* while a send of its is pending: the store changes only in steps of
\* other handlers
StoreKeptWhilePending(s) ==
    (SendsPending(s) /\ pushSubscriptions' # pushSubscriptions) =>
        inflight'[s] = inflight[s]

\* C29: a dispatch handler does not change the store while a send of its
\* is pending; it prunes in the one step it takes after every send was
\* answered, and the response of that step counts the pruned store
C29_PruneAfterAllSettled ==
    [][\A s \in Slots :
          /\ StoreKeptWhilePending(s)
          /\ DispatchFinish(s) =>
                 /\ ~SendsPending(s)
                 /\ last'.response.totalSubscriptions = Len(pushSubscriptions')]_vars

\* C29 witness: a dispatch to two subscribers finished, one of them gone
\* and pruned, and the response counts the one left
C29_Witness ==
    /\ last.dispatch.phase = "sending"
    /\ Len(last.dispatch.snapshot) = 2
    /\ last.dispatch.results[1].shouldRemove
    /\ last.dispatch.results[2].success
    /\ pushSubscriptions = <<last.dispatch.snapshot[2]>>
    /\ last.response.totalSubscriptions = 1

\* body.type names no catalog entry
UnknownType(body) == body.type # Undefined /\ body.type \notin CatalogTypes

\* C30: (as claimed) the type is resolved first: a dispatch of an unknown
\* type starts no send, and on an empty store its error is not the one of
\* the empty subscriber set
C30_TypeResolvedFirst ==
    [][\A body \in AllBodies :
          UnknownType(body) =>
              /\ \A s \in Slots : ~DispatchStart(s, body)
              /\ DispatchEmpty(body) =>
                     last'.response.error # "No subscriptions found"]_vars

\* the shown notification's top-level fields are the payload's merged
\* over the defaults, and its data the merged data object
MergedOver(payload) ==
    /\ \A key \in OptionKeys :
           notification'[key] = (IF payload[key] # Undefined THEN payload[key]
                                 ELSE defaultOptions[key])
    /\ \A key \in OtherKeys : notification'[key] = payload[key]
    /\ \A key \in {"url", "type"} :
           notification'.data[key]
               = (IF payload[key] # Undefined THEN payload[key]
                  ELSE IF key = "url" THEN "/" ELSE "unknown")

\* C31: (as claimed) for every push whose body parses as JSON, the JSON
\* body null among them, each of icon, badge, vibrate, requireInteraction
\* and renotify of the shown notification is the payload's where the
\* payload carries it and the default otherwise, every other top-level
\* field is the payload's, and data is the merged object
C31_OptionsMerged ==
    [][\A event \in OptionPushEvents :
          (event.kind \in {"json", "null"} /\ Push(event)) =>
              MergedOver(event.data)]_vars

\* C31: the same for every push whose body parses to a JSON object
C31_OptionsMergedForObjects ==
    [][\A event \in OptionPushEvents :
          (event.kind = "json" /\ Push(event)) => MergedOver(event.data)]_vars

\* C31 witness: a payload with its own icon (null), vibrate and
\* requireInteraction and without badge and renotify was shown
C31_Witness ==
    /\ notification.shown
    /\ notification.icon = Null
    /\ notification.vibrate = "[100]"
    /\ notification.requireInteraction = "false"
    /\ notification.badge = "/icon-192x192.svg"
    /\ notification.renotify = "true"
    /\ notification.image = "/photo.png"
    /\ notification.data.type = "unknown"

\* C32: the handler of a click, dismiss or not, closes the notification
\* exactly once, and the close is the first call it makes, before the
\* window lookup and every focus, navigate and open call
C32_ClosedOnceFirst ==
    click.phase # "idle" =>
        /\ Cardinality(CallsOf("close")) = 1
        /\ calls[1].op = "close"

\* C32 witness: a 'view' click closed the notification, looked the
\* windows up, focused the only one and navigated it, in this order
C32_Witness ==
    /\ click.phase = "done"
    /\ click.action = "view"
    /\ Len(calls) = 4
    /\ calls[1].op = "close"
    /\ calls[2].op = "matchAll"
    /\ calls[3].op = "focus"
    /\ calls[4].op = "navigate"

\* a payload that keeps what the catalog promises for this type
CatalogContract(payload, type) ==
    /\ payload.title \notin {Undefined, Null, ""}
    /\ payload.body \notin {Undefined, Null, ""}
    /\ payload.tag = type
    /\ payload.url \notin {Undefined, Null, ""}
    /\ payload.type = type
    /\ payload.actions = <<"view", "dismiss">>

\* C33: the catalog entry of each of the three event types, as a dispatch
\* of the type looks it up, has a non-empty title and body, the type as
\* its tag and data.type, a non-empty data.url and the action ids 'view'
\* then 'dismiss'
C33_CatalogContract ==
    /\ \A type \in CatalogTypes : CatalogContract(notificationPayloads(type), type)
    /\ \A s \in Slots :
           (inflight[s].phase = "sending" /\ inflight[s].type \in CatalogTypes) =>
               CatalogContract(inflight[s].payload, inflight[s].type)

\* C33 witness: dispatches of two catalog types hold their entries
C33_Witness ==
    /\ inflight[1].phase = "sending"
    /\ inflight[2].phase = "sending"
    /\ inflight[1].type = "chat_expiry"
    /\ inflight[1].payload.url = "/chats/456"
    /\ inflight[2].type = "new_message"
    /\ inflight[2].payload.tag = "new_message"

\* the outcome the handler h is waiting for or has got
choiceOf(h) == prompts[handlers[h].deferredPrompt].userChoice

\* C34: (as claimed) when the user dismissed the native prompt the button
\* that was clicked is still rendered after the handler has dealt with the
\* outcome
C34_KeptAfterDismiss ==
    [][\A h \in 1..MaxClicks :
          (ChoiceResolved(h) /\ choiceOf(h) = "dismissed" /\ rendered) => rendered']_vars

\* C36: an accepted outcome and an appinstalled event set
\* isInstallPromptUsed, nothing resets it, and while it is set the button
\* is not rendered, whatever event is held
UsedIsSet ==
    /\ AppInstalled => isInstallPromptUsed'
    /\ \A h \in 1..MaxClicks :
           (ChoiceResolved(h) /\ choiceOf(h) = "accepted") => isInstallPromptUsed'
    /\ isInstallPromptUsed => isInstallPromptUsed'

C36_NeverAgainOnceUsed ==
    /\ [][UsedIsSet]_vars
    /\ [](isInstallPromptUsed => ~rendered)

\* C36 witness: the user accepted the first event's prompt, a second event
\* was captured afterwards, and the button is not rendered
C36_Witness ==
    /\ mount = "mounted"
    /\ Len(prompts) = 2
    /\ prompts[1].userChoice = "accepted"
    /\ isInstallPromptUsed
    /\ deferredPrompt = 2
    /\ ~rendered

\* the handlers that called the callback for this event
calledFor(event) ==
    {h \in 1..Len(handlers) :
         /\ handlers[h].deferredPrompt = event
         /\ handlers[h].at = "done"
         /\ props.onInstallPromptHandled}

\* C37: (as claimed) the callback is called at most once for each
\* captured event, also when the button was clicked again while the first
\* click's handler was waiting, and a handler started without an event
\* calls neither prompt() nor the callback
C37_AtMostOncePerEvent ==
    /\ \A event \in 1..Len(prompts) : Cardinality(calledFor(event)) <= 1
    /\ \A h \in 1..Len(handlers) :
           handlers[h].deferredPrompt = NoPrompt => handlers[h].at = "returned"

\* a run of enableNotifications is under way
SetupRunning == setup.at \notin {"idle", "done", "failed"}

\* a step of the page that keeps the subscribed and loading flags as the
\* setup run allows
FlagsFollowSetup ==
    /\ (SetupRunning /\ ~isSubscribed /\ isSubscribed') => setup.status \in 200..299
    /\ (setup.at # "failed" /\ setup'.at = "failed") => ~isSubscribed'
    /\ (SetupRunning /\ ~SetupRunning') => ~isLoading'

\* C35: during a setup run the subscribed flag becomes true only once the
\* server has answered the run's registration request with a success
\* status; a run that ends in a failure leaves it false; the loading flag
\* is false when the run has ended
C35_SubscribedAfterServerOk == [][FlagsFollowSetup]_vars

\* C35 witness: a run went through, the server stored the subscription
\* and answered 200, the flag is true and loading is over
C35_Witness ==
    /\ setup.at = "done"
    /\ setup.status = 200
    /\ pushSubscriptions = <<PageSubscription>>
    /\ isSubscribed
    /\ ~isLoading
    /\ restarts = 0

\* a step of a simulate button carries the held subscription and is not
\* answered 'No subscriptions found'
SimulateCarries ==
    \A type \in CatalogTypes :
        Simulate(type) =>
            /\ subscriptionObj # NoSub
            /\ ~(nresp' # nresp /\ last'.response.error = "No subscriptions found")

\* C38: the subscribed flag is true exactly while a subscription is held,
\* and a dispatch request of the page carries it and is never answered
\* 'No subscriptions found', not even after a restart emptied the store
C38_HeldWhileSubscribed ==
    /\ [](isSubscribed <=> subscriptionObj # NoSub)
    /\ [][SimulateCarries]_vars

\* C38 witness: the page found its subscription in the browser and never
\* registered it, the server restarted, and a dispatch of the page is
\* sending to the subscription it carried
C38_Witness ==
    /\ restarts = 1
    /\ check = "done"
    /\ setup.at = "idle"
    /\ isSubscribed
    /\ inflight[1].phase = "sending"
    /\ inflight[1].snapshot = <<subscriptionObj>>

\* permission is granted and the setup run failed
Stuck ==
    /\ permission = "granted"
    /\ setup.at = "failed"
    /\ ~isSubscribed

\* a step of the page that starts a run only with the permission not
\* granted and no run under way, and that leaves a stuck page stuck
StartsOnlyWhenAllowed ==
    /\ EnableClick => (permission # "granted" /\ ~isLoading /\ ~SetupRunning)
    /\ Stuck => Stuck'

\* C39: the Enable action starts only while permission is not 'granted'
\* and no run is under way, and once permission is granted and the run
\* failed no step of the page starts a run or sets the subscribed flag
C39_NoRetryOnceGranted == [][StartsOnlyWhenAllowed]_vars

\* C39 witness: permission was granted, the browser subscribed, the
\* server answered 500, and the page is left without a way on
C39_Witness ==
    /\ Stuck
    /\ setup.status = 500
    /\ browser.subscription = PageSubscription
    /\ ~isLoading
====
